---- MODULE Spec2Model ----
(***************************************************************************)
(* A model of the build-parallelism coordination core: the GNU Make        *)
(* jobserver client and pool (POSIX), the MAKEFLAGS parser, and the        *)
(* kernel objects they act on (one pipe/FIFO buffer, the descriptor table, *)
(* the FIFO nodes of the file system).                                     *)
(*                                                                         *)
(* Text is modelled by TLA+ strings, one character per byte.  Descriptors  *)
(* are integers, -1 meaning "none" as in the code.                         *)
(***************************************************************************)
EXTENDS Integers, Sequences, FiniteSets, TLC

(***************************************************************************)
(* Bounds of the model.                                                    *)
(***************************************************************************)
\* Largest slot count passed to Pool::Create.
MaxSlots == 3
\* Number of Client objects that may be created on the pool.
MaxClients == 2
\* Largest number of token bytes an externally created pool starts with.
MaxTokens == 2

(***************************************************************************)
(* Text helpers.                                                           *)
(***************************************************************************)
CharAt(s, i) == SubSeq(s, i, i)

DropFirst(s, n) == SubSeq(s, n + 1, Len(s))

DecimalDigits == "0123456789"

IsDigit(c) == \E d \in 1..10 : CharAt(DecimalDigits, d) = c

DigitValue(c) == (CHOOSE d \in 1..10 : CharAt(DecimalDigits, d) = c) - 1

\* printf's %d / %zu / %zd conversion of an integer.
RECURSIVE FormatUnsigned(_)
FormatUnsigned(n) ==
    IF n < 10 THEN CharAt(DecimalDigits, n + 1)
    ELSE FormatUnsigned(n \div 10) \o CharAt(DecimalDigits, (n % 10) + 1)

FormatDecimal(n) == IF n < 0 THEN "-" \o FormatUnsigned(0 - n) ELSE FormatUnsigned(n)

\* The byte that terminates a C string, when it ends up inside a std::string.
NulByte == "\\0"

\* What Fatal() leaves behind: the process exits, there is no string.
FatalExit == "<Fatal>"

(***************************************************************************)
(* snprintf into a std::string of `size` bytes followed by resize(ret):    *)
(* ret is the length of the whole formatted text; at most size-1 bytes are *)
(* stored, then a NUL.  The callers call Fatal when ret > size.            *)
(***************************************************************************)
SnprintfResized(size, text) ==
    IF Len(text) > size THEN FatalExit
    ELSE IF Len(text) = size THEN SubSeq(text, 1, size - 1) \o NulByte
    ELSE text

(***************************************************************************)
(* Jobserver::Slot.                                                        *)
(***************************************************************************)
InvalidSlot == [kind |-> "Invalid", value |-> ""]

CreateImplicit == [kind |-> "Implicit", value |-> ""]

CreateExplicit(byte) == [kind |-> "Explicit", value |-> byte]

IsValid(slot) == slot.kind # "Invalid"

IsImplicit(slot) == slot.kind = "Implicit"

IsExplicit(slot) == slot.kind = "Explicit"

(***************************************************************************)
(* Jobserver::Config and the MAKEFLAGS parser.                             *)
(***************************************************************************)
\* kModePipe is the name jobserver-posix uses for kModeFileDescriptors.
kModeNone == "None"
kModeFileDescriptors == "FileDescriptors"
kModePosixFifo == "PosixFifo"
kModeWin32Semaphore == "Win32Semaphore"

DefaultConfig == [mode |-> kModeNone, read_fd |-> -1, write_fd |-> -1, path |-> ""]

\* If input starts with prefix: [ok |-> TRUE, value |-> the rest].
GetPrefixedValue(input, prefix) ==
    IF Len(input) < Len(prefix) \/ SubSeq(input, 1, Len(prefix)) # prefix
    THEN [ok |-> FALSE, value |-> ""]
    ELSE [ok |-> TRUE, value |-> DropFirst(input, Len(prefix))]

\* isspace() in the C locale, for the characters the model's inputs use.
IsSpace(c) == c \in {" ", "\t", "\n", "\r"}

RECURSIVE SkipSpace(_)
SkipSpace(s) == IF Len(s) > 0 /\ IsSpace(CharAt(s, 1)) THEN SkipSpace(DropFirst(s, 1)) ELSE s

\* The digits at the start of s, as a number: [n |-> count, value, rest].
RECURSIVE ScanDigits(_, _, _)
ScanDigits(s, acc, n) ==
    IF Len(s) > 0 /\ IsDigit(CharAt(s, 1))
    THEN ScanDigits(DropFirst(s, 1), acc * 10 + DigitValue(CharAt(s, 1)), n + 1)
    ELSE [n |-> n, value |-> acc, rest |-> s]

\* sscanf's %d: leading white space, an optional sign, at least one digit.
ScanInt(s) ==
    LET t    == SkipSpace(s)
        sign == IF Len(t) > 0 /\ CharAt(t, 1) \in {"-", "+"} THEN CharAt(t, 1) ELSE ""
        d    == ScanDigits(DropFirst(t, Len(sign)), 0, 0)
    IN  IF d.n = 0 THEN [ok |-> FALSE, value |-> 0, rest |-> s]
        ELSE [ok |-> TRUE, value |-> IF sign = "-" THEN 0 - d.value ELSE d.value,
              rest |-> d.rest]

\* sscanf(pair, "%d,%d", &read_fd, &write_fd): the number of conversions
\* done, and the config with the converted fields stored.
SscanfPair(input, config) ==
    LET a == ScanInt(input)
    IN  IF ~a.ok THEN [count |-> 0, config |-> config]
        ELSE LET c1 == [config EXCEPT !.read_fd = a.value]
             IN  IF Len(a.rest) = 0 \/ CharAt(a.rest, 1) # ","
                 THEN [count |-> 1, config |-> c1]
                 ELSE LET b == ScanInt(DropFirst(a.rest, 1))
                      IN  IF ~b.ok THEN [count |-> 1, config |-> c1]
                          ELSE [count |-> 2, config |-> [c1 EXCEPT !.write_fd = b.value]]

GetFileDescriptorPair(input, config) ==
    LET r == SscanfPair(input, config)
    IN  IF r.count # 2 THEN [ok |-> FALSE, config |-> r.config]
        ELSE [ok |-> TRUE,
              config |-> [r.config EXCEPT !.mode =
                            IF r.config.read_fd < 0 \/ r.config.write_fd < 0
                            THEN kModeNone ELSE kModeFileDescriptors]]

\* Position of the first space or tab of s, 0 if there is none.
RECURSIVE NextSpace(_, _)
NextSpace(s, i) ==
    IF i > Len(s) THEN 0
    ELSE IF CharAt(s, i) \in {" ", "\t"} THEN i
    ELSE NextSpace(s, i + 1)

\* The space or tab separated words of s, empty words dropped.
RECURSIVE SplitArgs(_)
SplitArgs(s) ==
    IF Len(s) = 0 THEN <<>>
    ELSE LET k == NextSpace(s, 1)
         IN  IF k = 0 THEN <<s>>
             ELSE IF k > 1 THEN <<SubSeq(s, 1, k - 1)>> \o SplitArgs(DropFirst(s, k))
             ELSE SplitArgs(DropFirst(s, k))

HasChar(s, c) == \E i \in 1..Len(s) : CharAt(s, i) = c

\* Variant of ParseArg: a --jobserver-fds= value that is no pair is passed
\* over like an unknown word.
ParseArgPassingBadPairs(arg, st) ==
    LET auth == GetPrefixedValue(arg, "--jobserver-auth=")
        old  == GetPrefixedValue(arg, "--jobserver-fds=")
    IN  IF auth.ok
        THEN LET p == GetFileDescriptorPair(auth.value, st.config)
                 f == GetPrefixedValue(auth.value, "fifo:")
             IN  IF p.ok THEN [st EXCEPT !.config = p.config]
                 ELSE IF f.ok
                 THEN [st EXCEPT !.config =
                          [p.config EXCEPT !.mode = kModePosixFifo, !.path = f.value]]
                 ELSE [st EXCEPT !.config =
                          [p.config EXCEPT !.mode = kModeWin32Semaphore, !.path = auth.value]]
        ELSE IF old.ok
        THEN LET p == GetFileDescriptorPair(old.value, st.config)
             IN  IF ~p.ok THEN st
                 ELSE [st EXCEPT !.config = [p.config EXCEPT !.mode = kModeFileDescriptors]]
        ELSE st

\* One turn of the loop over the arguments.
ParseArg(arg, st) ==
    LET auth == GetPrefixedValue(arg, "--jobserver-auth=")
        old  == GetPrefixedValue(arg, "--jobserver-fds=")
    IN  IF auth.ok
        THEN LET p == GetFileDescriptorPair(auth.value, st.config)
                 f == GetPrefixedValue(auth.value, "fifo:")
             IN  IF p.ok THEN [st EXCEPT !.config = p.config]
                 ELSE IF f.ok
                 THEN [st EXCEPT !.config =
                          [p.config EXCEPT !.mode = kModePosixFifo, !.path = f.value]]
                 ELSE [st EXCEPT !.config =
                          [p.config EXCEPT !.mode = kModeWin32Semaphore, !.path = auth.value]]
        ELSE IF old.ok
        THEN LET p == GetFileDescriptorPair(old.value, st.config)
             IN  IF ~p.ok
                 THEN [ok |-> FALSE, config |-> p.config,
                       error |-> "Invalid file descriptor pair [" \o old.value \o "]"]
                 ELSE [st EXCEPT !.config = [p.config EXCEPT !.mode = kModeFileDescriptors]]
        ELSE st

\* Variant of ParseArgs: the loop ends at the first word that set the config.
RECURSIVE ParseArgsFirstWins(_, _)
ParseArgsFirstWins(args, st) ==
    IF Len(args) = 0 \/ ~st.ok \/ st.config # DefaultConfig THEN st
    ELSE ParseArgsFirstWins(Tail(args), ParseArg(Head(args), st))

RECURSIVE ParseArgs(_, _)
ParseArgs(args, st) ==
    IF Len(args) = 0 \/ ~st.ok THEN st
    ELSE ParseArgs(Tail(args), ParseArg(Head(args), st))

\* Variant of ParseMakeFlagsValue: an 'n' in the first word is taken for the
\* dry-run flag whatever the word starts with.
ParseGateOnAnyFirstWord(makeflags_env) ==
    LET st0  == [ok |-> TRUE, config |-> DefaultConfig, error |-> ""]
        args == SplitArgs(makeflags_env)
    IN  IF Len(makeflags_env) = 0 THEN st0
        ELSE IF Len(args) > 0 /\ HasChar(args[1], "n") THEN st0
        ELSE ParseArgs(args, st0)

\* Jobserver::ParseMakeFlagsValue: [ok, config, error].  A null pointer and
\* the empty string are both the empty text here.
ParseMakeFlagsValue(makeflags_env) ==
    LET st0  == [ok |-> TRUE, config |-> DefaultConfig, error |-> ""]
        args == SplitArgs(makeflags_env)
    IN  IF Len(makeflags_env) = 0 THEN st0
        ELSE IF Len(args) > 0 /\ CharAt(args[1], 1) # "-" /\ HasChar(args[1], "n") THEN st0
        ELSE ParseArgs(args, st0)

\* Variant of ParseNativeMakeFlagsValue: every mode is let through.
ParseNativeAnyMode(makeflags_env, platform) == ParseMakeFlagsValue(makeflags_env)

\* The mode checks of ParseNativeMakeFlagsValue on what ParseMakeFlagsValue
\* gave, in a build with _WIN32 defined (platform "win32") or not ("posix").
NativeModeCheck(r, platform) ==
    IF ~r.ok THEN r
    ELSE IF platform = "win32" /\ r.config.mode = kModePosixFifo
    THEN [r EXCEPT !.ok = FALSE, !.error = "FIFO mode is not available on Windows!"]
    ELSE IF platform = "win32" /\ r.config.mode = kModeFileDescriptors
    THEN [r EXCEPT !.ok = FALSE,
                   !.error = "File-descriptor based authentication is not available on Windows!"]
    ELSE IF platform # "win32" /\ r.config.mode = kModeWin32Semaphore
    THEN [r EXCEPT !.ok = FALSE, !.error = "Semaphore mode is only available on Windows!"]
    ELSE r

\* Jobserver::ParseNativeMakeFlagsValue: [ok, config, error].
ParseNativeMakeFlagsValue(makeflags_env, platform) ==
    NativeModeCheck(ParseMakeFlagsValue(makeflags_env), platform)

(***************************************************************************)
(* The state: the kernel objects, the pool object, the client objects and  *)
(* the slots their callers hold, and a record of the calls made.           *)
(***************************************************************************)
VARIABLES
    environ,        \* the process: [tmpdir |-> TMPDIR ("" when unset), pid |-> getpid()]
    fs,             \* file system: path -> "fifo" (the pool's FIFO), "stale" (a node
                    \* that was there before) or "file" (a regular file)
    fds,            \* descriptor table: descriptor -> "pipe_r", "pipe_w", "pipe_rw", "file"
    pipe,           \* the bytes buffered in the pipe / FIFO, oldest first
    pipe0,          \* the bytes the pool held when it was handed to its clients
    pool,           \* the PosixJobserverPool object
    node_created,   \* whether the pool's mknod created the node at pool.fifo_
    clients,        \* client -> the PosixJobserverClient object
    held,           \* client -> the slots its caller got and has not released
    released,       \* whether Release was called with a valid slot
    lost,           \* the token bytes whose write in Release failed
    assert_failed,  \* whether the assertion in Release fired
    last            \* the last call made and what it saw

jobserver_vars == <<environ, fs, fds, pipe, pipe0, pool, node_created, clients, held,
                    released, lost, assert_failed, last>>

\* The calls of the MAKEFLAGS parser: the text it is given and what it
\* answered.
VARIABLES
    words,          \* the words the text was put together from
    makeflags_env,  \* the text passed as makeflags_env
    parse           \* the call made on it, and its results

parser_vars == <<words, makeflags_env, parse>>

\* The SubprocessSet (Windows), its subprocesses, and the kernel objects
\* behind them.  A subprocess is named by the place of its Add among the
\* Adds.
VARIABLES
    subs,           \* the Subprocess objects
    kpipes,         \* per subprocess and stream, the kernel's side of the named pipe
    children,       \* per subprocess, the child process
    running_,       \* SubprocessSet::running_
    finished_,      \* SubprocessSet::finished_
    ioport,         \* the completion packets queued on ioport_, oldest first
    fatal,          \* the message the process was ended with, "" while it runs
    arrival,        \* per subprocess, the bytes appended to its buffers, in order
    entered,        \* the subprocesses pushed on finished_, in order, and by whom
    handed,         \* the subprocesses NextFinished returned, in order
    work            \* the last call on the set and what it returned

subproc_vars == <<subs, kpipes, children, running_, finished_, ioport, fatal, arrival,
                  entered, handed, work>>

\* The StatusTable, and what a TestStatusTable logs of its output.
VARIABLES
    config_,                \* StatusTable::config_
    last_command_count_,    \* StatusTable::last_command_count_
    last_command_id_,       \* StatusTable::last_command_id_
    last_update_time_ms_,   \* StatusTable::last_update_time_ms_
    last_status_,           \* StatusTable::last_status_
    pending_commands_,      \* StatusTable::pending_commands_, as the set of its entries
    log_,                   \* the output calls made by the last call on the table
    call,                   \* the last call on the table when it is one that can
                            \* print (UpdateTable, ClearTable, BuildEnded): its
                            \* time, whether the refresh timeout cut it short,
                            \* last_command_count_ before it, the entries it printed
    shown_at,               \* the time of the last update of this build that was not
                            \* cut short by the refresh timeout, -1 if there is none
    table_lines             \* the rows under the status line that hold a table line

table_vars == <<config_, last_command_count_, last_command_id_, last_update_time_ms_,
                last_status_, pending_commands_, log_, call, shown_at, table_lines>>

\* A CanonicalPath object, and the string, mask and build it is made from.
VARIABLES
    input_path,     \* the string and slash bits handed to the constructors, and
                    \* whether the build is one for Windows (_WIN32)
    canon,          \* the CanonicalPath object: value_ and slash_bits_, the mask
                    \* as the set of the positions of its bits that are set
    path_call       \* the last call on the path: the object before it, whether
                    \* the object is now one that a public constructor made
                    \* from a string and, for Decanonicalized, the string
                    \* returned

path_vars == <<input_path, canon, path_call>>

\* The LinePrinter and what it writes to the terminal.
VARIABLES
    smart_terminal_,    \* LinePrinter::smart_terminal_
    have_blank_line_,   \* LinePrinter::have_blank_line_
    console_locked_,    \* LinePrinter::console_locked_
    line_buffer_,       \* LinePrinter::line_buffer_
    line_type_,         \* LinePrinter::line_type_
    output_buffer_,     \* LinePrinter::output_buffer_
    term_out,           \* what the last call wrote to the terminal, in order
    buffered,           \* what was buffered since the console was locked, in
                        \* call order
    printer_call        \* the last call on the printer, and whether the console
                        \* was locked when it was made

printer_vars == <<smart_terminal_, have_blank_line_, console_locked_, line_buffer_,
                  line_type_, output_buffer_, term_out, buffered, printer_call>>

vars == <<jobserver_vars, parser_vars, subproc_vars, table_vars, path_vars, printer_vars>>

\* What a call on the jobserver objects leaves alone.
OutsideJobserver == <<parser_vars, subproc_vars, table_vars, path_vars, printer_vars>>

\* What a call of the parser leaves alone.
OutsideParser == <<jobserver_vars, subproc_vars, table_vars, path_vars, printer_vars>>

\* What a call on the subprocess set leaves alone.
OutsideSubprocess == <<jobserver_vars, parser_vars, table_vars, path_vars, printer_vars>>

\* What a call on the status table leaves alone.
OutsideTable == <<jobserver_vars, parser_vars, subproc_vars, path_vars, printer_vars>>

\* What a call on a canonical path leaves alone.
OutsidePath == <<jobserver_vars, parser_vars, subproc_vars, table_vars, printer_vars>>

\* What a call on the line printer leaves alone.
OutsidePrinter == <<jobserver_vars, parser_vars, subproc_vars, table_vars, path_vars>>

\* CanonicalPath(): the empty path.
DefaultPath == [value_ |-> "", slash_bits_ |-> {}]

\* No call on the path yet.
NoPathCall == [op |-> "none", before |-> DefaultPath, constructed |-> FALSE, result |-> ""]

\* A path no call is made on.
PathUnused ==
    /\ input_path = [str |-> "", slash_bits |-> {}, win32 |-> FALSE]
    /\ canon = DefaultPath
    /\ path_call = NoPathCall

\* No call on the printer yet.
NoPrinterCall == [op |-> "none", locked |-> FALSE, was_locked |-> FALSE]

\* LinePrinter::LinePrinter(): the members as initialized, smart_terminal_
\* as the constructor finds the terminal; nothing written.
NewPrinter(smart) ==
    /\ smart_terminal_ = smart
    /\ have_blank_line_ = TRUE
    /\ console_locked_ = FALSE
    /\ line_buffer_ = ""
    /\ line_type_ = "FULL"
    /\ output_buffer_ = ""
    /\ term_out = <<>>
    /\ buffered = <<>>
    /\ printer_call = NoPrinterCall

\* A printer no call is made on.
PrinterUnused == NewPrinter(FALSE)

\* StatusTable::Config: max_commands (0 disables the table) and
\* refresh_timeout_ms, as default-constructed.
DefaultTableConfig == [max_commands |-> 0, refresh_timeout_ms |-> 0 - 1]

\* No call on the table yet, or the last one was a call that never prints.
NoTableCall == [op |-> "none", time |-> 0, throttled |-> FALSE, before |-> 0, shown |-> <<>>]

\* StatusTable::StatusTable(config): the members as initialized, nothing
\* logged.
NewTable(config) ==
    /\ config_ = config
    /\ last_command_count_ = 0
    /\ last_command_id_ = 0
    /\ last_update_time_ms_ = 0 - 1
    /\ last_status_ = ""
    /\ pending_commands_ = {}
    /\ log_ = <<>>
    /\ call = NoTableCall
    /\ shown_at = 0 - 1
    /\ table_lines = {}

\* A table no call is made on.
TableUnused == NewTable(DefaultTableConfig)

\* No call on the set is looked at.
NoWork == [op |-> "none", subproc |-> 0, ret |-> FALSE, status |-> 0, signalled |-> {}]

\* A set nothing was added to.
SubprocessUnused ==
    /\ subs = <<>> /\ kpipes = <<>> /\ children = <<>>
    /\ running_ = <<>> /\ finished_ = <<>> /\ ioport = <<>>
    /\ fatal = ""
    /\ arrival = <<>> /\ entered = <<>> /\ handed = <<>>
    /\ work = NoWork

Clients == 1..MaxClients

(***************************************************************************)
(* Kernel objects.  The model holds one pipe object; every descriptor of   *)
(* kind "pipe_*" and the node of kind "fifo" refer to it.                  *)
(***************************************************************************)
PipeKinds == {"pipe_r", "pipe_w", "pipe_rw"}

\* open(), dup() and pipe() return the lowest descriptor not in use.
LowestFree(tbl) ==
    CHOOSE n \in 3..(3 + Cardinality(DOMAIN tbl)) :
        n \notin DOMAIN tbl /\ \A m \in 3..(n - 1) : m \in DOMAIN tbl

WithFd(tbl, fd, kind) == [f \in DOMAIN tbl \cup {fd} |-> IF f = fd THEN kind ELSE tbl[f]]

\* close(fd); a descriptor below 0 is never closed by the code.
CloseFd(tbl, fd) == [f \in DOMAIN tbl \ {fd} |-> tbl[f]]

\* The buffered bytes live as long as some descriptor refers to the pipe.
PipeAfterClose(tbl, bytes) ==
    IF \E f \in DOMAIN tbl : tbl[f] \in PipeKinds THEN bytes ELSE ""

NodeKind(files, path) == IF path \in DOMAIN files THEN files[path] ELSE "absent"

WithNode(files, path, kind) ==
    [q \in DOMAIN files \cup {path} |-> IF q = path THEN kind ELSE files[q]]

\* unlink(path): removes the node if there is one.
Unlink(files, path) == [q \in DOMAIN files \ {path} |-> files[q]]

\* fstat(fd) succeeds and reports S_IFIFO.
IsFifoDescriptor(tbl, fd) == fd \in DOMAIN tbl /\ tbl[fd] \in PipeKinds

\* One read(fd, &c, 1) on a non-blocking descriptor: [ret, byte, rest].
ReadByte(tbl, fd, bytes) ==
    IF fd \in DOMAIN tbl /\ tbl[fd] \in {"pipe_r", "pipe_rw"} /\ Len(bytes) > 0
    THEN [ret |-> 1, byte |-> CharAt(bytes, 1), rest |-> DropFirst(bytes, 1)]
    ELSE [ret |-> -1, byte |-> "", rest |-> bytes]

\* One write(fd, &c, 1) that is not interrupted: the bytes buffered afterwards.
WriteByte(tbl, fd, bytes, byte, io_ok) ==
    IF io_ok /\ fd \in DOMAIN tbl /\ tbl[fd] \in {"pipe_w", "pipe_rw"}
    THEN [ret |-> 1, bytes |-> bytes \o byte]
    ELSE [ret |-> -1, bytes |-> bytes]

(***************************************************************************)
(* PosixJobserverClient.                                                   *)
(***************************************************************************)
\* Variant of NoClient: has_implicit_slot_ initialised to false.
NoClientWithoutImplicit ==
    [alive |-> FALSE, has_implicit_slot_ |-> FALSE, read_fd_ |-> -1, write_fd_ |-> -1]

NoClient == [alive |-> FALSE, has_implicit_slot_ |-> TRUE, read_fd_ |-> -1, write_fd_ |-> -1]

\* do { ret = read(...) } while (ret < 0 && errno == EINTR), the read being
\* interrupted `eintr` times before it is served.
RECURSIVE ReadRetrying(_, _, _, _)
ReadRetrying(tbl, fd, bytes, eintr) ==
    IF eintr > 0 THEN ReadRetrying(tbl, fd, bytes, eintr - 1) ELSE ReadByte(tbl, fd, bytes)

\* Variant of TryAcquireCall: the implicit slot is handed out without
\* has_implicit_slot_ being cleared.
TryAcquireKeepsImplicit(cl, tbl, bytes, eintr) ==
    IF cl.has_implicit_slot_
    THEN [slot |-> CreateImplicit, client |-> cl, bytes |-> bytes]
    ELSE LET r == ReadRetrying(tbl, cl.read_fd_, bytes, eintr)
         IN  IF r.ret = 1
             THEN [slot |-> CreateExplicit(r.byte), client |-> cl, bytes |-> r.rest]
             ELSE [slot |-> InvalidSlot, client |-> cl, bytes |-> bytes]

\* Variant of TryAcquireCall: the pool is read first, the implicit slot is
\* used only when the read gives nothing.
TryAcquirePoolFirst(cl, tbl, bytes, eintr) ==
    LET r == ReadRetrying(tbl, cl.read_fd_, bytes, eintr)
    IN  IF r.ret = 1
        THEN [slot |-> CreateExplicit(r.byte), client |-> cl, bytes |-> r.rest]
        ELSE IF cl.has_implicit_slot_
        THEN [slot |-> CreateImplicit, client |-> [cl EXCEPT !.has_implicit_slot_ = FALSE],
              bytes |-> bytes]
        ELSE [slot |-> InvalidSlot, client |-> cl, bytes |-> bytes]

\* TryAcquire: [slot, client, bytes].
TryAcquireCall(cl, tbl, bytes, eintr) ==
    IF cl.has_implicit_slot_
    THEN [slot |-> CreateImplicit, client |-> [cl EXCEPT !.has_implicit_slot_ = FALSE],
          bytes |-> bytes]
    ELSE LET r == ReadRetrying(tbl, cl.read_fd_, bytes, eintr)
         IN  IF r.ret = 1
             THEN [slot |-> CreateExplicit(r.byte), client |-> cl, bytes |-> r.rest]
             ELSE [slot |-> InvalidSlot, client |-> cl, bytes |-> bytes]

\* Variant of WriteRetrying that gives up when a signal interrupts the write.
WriteOnce(tbl, fd, bytes, byte, io_ok, eintr) ==
    IF eintr > 0 THEN [ret |-> -1, bytes |-> bytes]
    ELSE WriteByte(tbl, fd, bytes, byte, io_ok)

\* do { ret = write(...) } while (ret < 0 && errno == EINTR).
RECURSIVE WriteRetrying(_, _, _, _, _, _)
WriteRetrying(tbl, fd, bytes, byte, io_ok, eintr) ==
    IF eintr > 0 THEN WriteRetrying(tbl, fd, bytes, byte, io_ok, eintr - 1)
    ELSE WriteByte(tbl, fd, bytes, byte, io_ok)

\* Variant of ReleaseCall: an interrupted write is not tried again.
ReleaseWithoutRetry(cl, slot, tbl, bytes, io_ok, eintr) ==
    IF ~IsValid(slot)
    THEN [client |-> cl, bytes |-> bytes, asserted |-> FALSE, dropped |-> ""]
    ELSE IF IsImplicit(slot)
    THEN [client |-> [cl EXCEPT !.has_implicit_slot_ = TRUE], bytes |-> bytes,
          asserted |-> cl.has_implicit_slot_, dropped |-> ""]
    ELSE LET w == WriteByte(tbl, cl.write_fd_, bytes, slot.value, io_ok)
         IN  IF eintr > 0
             THEN [client |-> cl, bytes |-> bytes, asserted |-> FALSE, dropped |-> ""]
             ELSE [client |-> cl, bytes |-> w.bytes, asserted |-> FALSE,
                   dropped |-> IF w.ret = 1 THEN "" ELSE slot.value]

\* Release: [client, bytes, asserted, dropped].
ReleaseCall(cl, slot, tbl, bytes, io_ok, eintr) ==
    IF ~IsValid(slot)
    THEN [client |-> cl, bytes |-> bytes, asserted |-> FALSE, dropped |-> ""]
    ELSE IF IsImplicit(slot)
    THEN [client |-> [cl EXCEPT !.has_implicit_slot_ = TRUE], bytes |-> bytes,
          asserted |-> cl.has_implicit_slot_, dropped |-> ""]
    ELSE LET w == WriteRetrying(tbl, cl.write_fd_, bytes, slot.value, io_ok, eintr)
         IN  [client |-> cl, bytes |-> w.bytes, asserted |-> FALSE,
              dropped |-> IF w.ret = 1 THEN "" ELSE slot.value]

\* InitWithPipeFds: [ok, client, fds, error].  `fail` names the system call
\* that is made to fail, "none" when all succeed.
ClientInitWithPipeFds(cl, read_fd, write_fd, tbl, fail) ==
    IF ~IsFifoDescriptor(tbl, read_fd) \/ ~IsFifoDescriptor(tbl, write_fd)
    THEN [ok |-> FALSE, client |-> cl, fds |-> tbl, error |-> "Invalid file descriptors"]
    ELSE IF fail = "read"
    THEN [ok |-> FALSE, client |-> cl, fds |-> tbl,
          error |-> "Could not duplicate read descriptor"]
    ELSE LET r  == LowestFree(tbl)
             t1 == WithFd(tbl, r, tbl[read_fd])
             c1 == [cl EXCEPT !.read_fd_ = r]
         IN  IF fail = "write"
             THEN [ok |-> FALSE, client |-> c1, fds |-> t1,
                   error |-> "Could not duplicate write descriptor"]
             ELSE LET w == LowestFree(t1)
                  IN  [ok |-> TRUE, client |-> [c1 EXCEPT !.write_fd_ = w],
                       fds |-> WithFd(t1, w, tbl[write_fd]), error |-> ""]

\* Variant of ClientInitWithFifo: what was opened is not looked at.
ClientInitWithFifoUnchecked(cl, fifo_path, files, tbl, fail) ==
    IF fifo_path = ""
    THEN [ok |-> FALSE, client |-> cl, fds |-> tbl, error |-> "Empty fifo path"]
    ELSE IF NodeKind(files, fifo_path) = "absent" \/ fail = "read"
    THEN [ok |-> FALSE, client |-> cl, fds |-> tbl,
          error |-> "Error opening fifo for reading: "
                    \o (IF fail = "read" THEN "Too many open files"
                        ELSE "No such file or directory")]
    ELSE LET r  == LowestFree(tbl)
             k  == NodeKind(files, fifo_path)
             t1 == WithFd(tbl, r, IF k = "fifo" THEN "pipe_r" ELSE "file")
             c1 == [cl EXCEPT !.read_fd_ = r]
         IN  IF fail = "write"
             THEN [ok |-> FALSE, client |-> c1, fds |-> t1,
                   error |-> "Error opening fifo for writing: Too many open files"]
             ELSE LET w == LowestFree(t1)
                  IN  [ok |-> TRUE, client |-> [c1 EXCEPT !.write_fd_ = w],
                       fds |-> WithFd(t1, w, IF k = "fifo" THEN "pipe_w" ELSE "file"),
                       error |-> ""]

\* InitWithFifo(fifo_path): [ok, client, fds, error].
ClientInitWithFifo(cl, fifo_path, files, tbl, fail) ==
    IF fifo_path = ""
    THEN [ok |-> FALSE, client |-> cl, fds |-> tbl, error |-> "Empty fifo path"]
    ELSE IF NodeKind(files, fifo_path) = "absent" \/ fail = "read"
    THEN [ok |-> FALSE, client |-> cl, fds |-> tbl,
          error |-> "Error opening fifo for reading: "
                    \o (IF fail = "read" THEN "Too many open files"
                        ELSE "No such file or directory")]
    ELSE LET r  == LowestFree(tbl)
             k  == NodeKind(files, fifo_path)
             t1 == WithFd(tbl, r, IF k = "fifo" THEN "pipe_r" ELSE "file")
             c1 == [cl EXCEPT !.read_fd_ = r]
         IN  IF ~IsFifoDescriptor(t1, r)
             THEN [ok |-> FALSE, client |-> c1, fds |-> t1,
                   error |-> "Not a fifo path: " \o fifo_path]
             ELSE IF fail = "write"
             THEN [ok |-> FALSE, client |-> c1, fds |-> t1,
                   error |-> "Error opening fifo for writing: Too many open files"]
             ELSE LET w == LowestFree(t1)
                  IN  [ok |-> TRUE, client |-> [c1 EXCEPT !.write_fd_ = w],
                       fds |-> WithFd(t1, w, "pipe_w"), error |-> ""]

\* ~PosixJobserverClient: the descriptor table afterwards.
ClientDestructor(cl, tbl) ==
    LET t1 == IF cl.write_fd_ >= 0 THEN CloseFd(tbl, cl.write_fd_) ELSE tbl
    IN  IF cl.read_fd_ >= 0 THEN CloseFd(t1, cl.read_fd_) ELSE t1

\* Jobserver::Client::Create: [ok, client, fds, error], the error text ""
\* when the call does not set it.
ClientCreateCall(config, files, tbl, fail) ==
    LET cl == [NoClient EXCEPT !.alive = TRUE]
        r  == IF config.mode = kModeFileDescriptors
              THEN ClientInitWithPipeFds(cl, config.read_fd, config.write_fd, tbl, fail)
              ELSE IF config.mode = kModePosixFifo
              THEN ClientInitWithFifo(cl, config.path, files, tbl, fail)
              ELSE [ok |-> FALSE, client |-> cl, fds |-> tbl,
                    error |-> "Unsupported jobserver mode"]
    IN  IF r.ok THEN [ok |-> TRUE, client |-> r.client, fds |-> r.fds, error |-> ""]
        ELSE [ok |-> FALSE, client |-> NoClient, fds |-> ClientDestructor(r.client, r.fds),
              error |-> r.error]

(***************************************************************************)
(* PosixJobserverPool.                                                     *)
(***************************************************************************)
NoPool == [alive |-> FALSE, job_count_ |-> 0, read_fd_ |-> -1, write_fd_ |-> -1, fifo_ |-> ""]

\* The token byte the pool writes.
SlotChar == "+"

\* FillSlots' loop, the writes ending as w says ("ok", "EINTR" or "error"),
\* one entry per write: [ok, written].  `continue` goes on with the loop's
\* --slot_count.
RECURSIVE FillSlotsLoop(_, _, _)
FillSlotsLoop(slot_count, w, written) ==
    IF ~(slot_count > 1) THEN [ok |-> TRUE, written |-> written]
    ELSE IF Head(w) = "ok" THEN FillSlotsLoop(slot_count - 1, Tail(w), written \o SlotChar)
    ELSE IF Head(w) = "EINTR" THEN FillSlotsLoop(slot_count - 1, Tail(w), written)
    ELSE [ok |-> FALSE, written |-> written]

\* FillSlots: [ok, pool, bytes, error].
FillSlots(pl, slot_count, bytes, w) ==
    LET r == FillSlotsLoop(slot_count, w, "")
    IN  [ok |-> r.ok, pool |-> [pl EXCEPT !.job_count_ = slot_count],
         bytes |-> bytes \o r.written,
         error |-> IF r.ok THEN "" ELSE "Could not fill job slots pool: Input/output error"]

\* "%s/NinjaFIFO%d" of TMPDIR (or "/tmp") and getpid().  The buffer is 32
\* bytes longer than TMPDIR, and "/NinjaFIFO" with an int is at most 21.
FifoPath(env) ==
    (IF env.tmpdir_set THEN env.tmpdir ELSE "/tmp") \o "/NinjaFIFO" \o FormatDecimal(env.pid)

\* InitWithPipe: [ok, pool, fs, fds, bytes, error, created].
PoolInitWithPipe(pl, slot_count, env, files, tbl, bytes, sys) ==
    IF sys.fail = "pipe"
    THEN [ok |-> FALSE, pool |-> pl, fs |-> files, fds |-> tbl, bytes |-> bytes,
          error |-> "Could not create anonymous pipe: Too many open files",
          created |-> FALSE]
    ELSE LET r  == LowestFree(tbl)
             t1 == WithFd(tbl, r, "pipe_r")
             w  == LowestFree(t1)
             t2 == WithFd(t1, w, "pipe_w")
             f  == FillSlots([pl EXCEPT !.read_fd_ = r, !.write_fd_ = w],
                             slot_count, bytes, sys.w)
         IN  [ok |-> f.ok, pool |-> f.pool, fs |-> files, fds |-> t2, bytes |-> f.bytes,
              error |-> f.error, created |-> FALSE]

\* InitWithFifo: [ok, pool, fs, fds, bytes, error, created].  The open is
\* retried while a signal interrupts it; it ends made or failed.
PoolInitWithFifo(pl, slot_count, env, files, tbl, bytes, sys) ==
    LET p1 == [pl EXCEPT !.fifo_ = FifoPath(env)]
    IN  IF NodeKind(files, p1.fifo_) # "absent" \/ sys.fail = "mknod"
        THEN [ok |-> FALSE, pool |-> p1, fs |-> files, fds |-> tbl, bytes |-> bytes,
              error |-> "Cannot create fifo: "
                        \o (IF NodeKind(files, p1.fifo_) # "absent" THEN "File exists"
                            ELSE "Permission denied"),
              created |-> FALSE]
        ELSE LET f1 == WithNode(files, p1.fifo_, "fifo")
             IN  IF sys.fail = "open"
                 THEN [ok |-> FALSE, pool |-> p1, fs |-> f1, fds |-> tbl, bytes |-> bytes,
                       error |-> "Could not open fifo: Too many open files",
                       created |-> TRUE]
                 ELSE LET w == LowestFree(tbl)
                          f == FillSlots([p1 EXCEPT !.write_fd_ = w], slot_count, bytes, sys.w)
                      IN  [ok |-> f.ok, pool |-> f.pool, fs |-> f1,
                           fds |-> WithFd(tbl, w, "pipe_rw"), bytes |-> f.bytes,
                           error |-> f.error, created |-> TRUE]

\* ~PosixJobserverPool: [fs, fds, bytes].
PoolDestructor(pl, files, tbl, bytes) ==
    LET t1 == IF pl.read_fd_ >= 0 THEN CloseFd(tbl, pl.read_fd_) ELSE tbl
        t2 == IF pl.write_fd_ >= 0 THEN CloseFd(t1, pl.write_fd_) ELSE t1
    IN  [fs |-> IF pl.fifo_ # "" THEN Unlink(files, pl.fifo_) ELSE files,
         fds |-> t2, bytes |-> PipeAfterClose(t2, bytes)]

\* Variant of TooFewSlots: a pool of one slot is let through.
TooFewSlotsBelowOne(num_job_slots) == num_job_slots < 1

\* The test of Pool::Create on its slot count.
TooFewSlots(num_job_slots) == num_job_slots < 2

\* Jobserver::Pool::Create: [ok, pool, fs, fds, bytes, error, created].
PoolCreateCall(num_job_slots, mode, env, files, tbl, bytes, sys) ==
    IF TooFewSlots(num_job_slots)
    THEN [ok |-> FALSE, pool |-> NoPool, fs |-> files, fds |-> tbl, bytes |-> bytes,
          error |-> "At least 2 job slots needed", created |-> FALSE]
    ELSE LET pl == [NoPool EXCEPT !.alive = TRUE]
             r  == IF mode = kModeFileDescriptors
                   THEN PoolInitWithPipe(pl, num_job_slots, env, files, tbl, bytes, sys)
                   ELSE IF mode = kModePosixFifo
                   THEN PoolInitWithFifo(pl, num_job_slots, env, files, tbl, bytes, sys)
                   ELSE [ok |-> FALSE, pool |-> pl, fs |-> files, fds |-> tbl,
                         bytes |-> bytes, error |-> "Unsupported jobserver mode",
                         created |-> FALSE]
         IN  IF r.ok THEN r
             ELSE LET d == PoolDestructor(r.pool, r.fs, r.fds, r.bytes)
                  IN  [ok |-> FALSE, pool |-> NoPool, fs |-> d.fs, fds |-> d.fds,
                       bytes |-> d.bytes, error |-> r.error, created |-> r.created]

\* Variant of GetEnvMakeFlagsValue: the text starts at "-j", and the pipe
\* form puts --jobserver-auth before --jobserver-fds.
GetEnvAuthFirst(pl) ==
    IF pl.read_fd_ >= 0 /\ pl.write_fd_ >= 0
    THEN "-j" \o FormatDecimal(pl.job_count_)
         \o " --jobserver-auth=" \o FormatDecimal(pl.read_fd_) \o ","
         \o FormatDecimal(pl.write_fd_)
         \o " --jobserver-fds=" \o FormatDecimal(pl.read_fd_) \o ","
         \o FormatDecimal(pl.write_fd_)
    ELSE IF pl.fifo_ # ""
    THEN "-j" \o FormatDecimal(pl.job_count_) \o " --jobserver-auth=fifo:" \o pl.fifo_
    ELSE ""

\* Variant of GetEnvMakeFlagsValue: "-j" is written without the slot count.
GetEnvWithoutCount(pl) ==
    IF pl.read_fd_ >= 0 /\ pl.write_fd_ >= 0
    THEN " -j"
         \o " --jobserver-fds=" \o FormatDecimal(pl.read_fd_) \o ","
         \o FormatDecimal(pl.write_fd_)
         \o " --jobserver-auth=" \o FormatDecimal(pl.read_fd_) \o ","
         \o FormatDecimal(pl.write_fd_)
    ELSE IF pl.fifo_ # ""
    THEN " -j" \o " --jobserver-auth=fifo:" \o pl.fifo_
    ELSE ""

\* GetEnvMakeFlagsValue.
GetEnvMakeFlagsValue(pl) ==
    LET fifo == IF pl.fifo_ # ""
                THEN SnprintfResized(Len(pl.fifo_) + 32,
                         " -j" \o FormatDecimal(pl.job_count_)
                         \o " --jobserver-auth=fifo:" \o pl.fifo_)
                ELSE ""
    IN  IF pl.read_fd_ >= 0 /\ pl.write_fd_ >= 0
        THEN SnprintfResized(256,
                 " -j" \o FormatDecimal(pl.job_count_)
                 \o " --jobserver-fds=" \o FormatDecimal(pl.read_fd_) \o ","
                 \o FormatDecimal(pl.write_fd_)
                 \o " --jobserver-auth=" \o FormatDecimal(pl.read_fd_) \o ","
                 \o FormatDecimal(pl.write_fd_))
        ELSE fifo

(***************************************************************************)
(* The calls, as actions.                                                  *)
(***************************************************************************)
\* No call of the parser is looked at.
NoParse == [call |-> "none", platform |-> "", ok |-> FALSE, config |-> DefaultConfig,
            error |-> ""]

ParserUnused == words = <<>> /\ makeflags_env = "" /\ parse = NoParse

NoCall == [op |-> "none", client |-> 0, slot |-> InvalidSlot, ok |-> FALSE,
           implicit_before |-> 0, held_before |-> 0, slots |-> 0, mode |-> kModeNone,
           fail |-> "none", node_before |-> "absent", from_env |-> FALSE, error |-> "",
           config |-> DefaultConfig]

\* The slots of a sequence that satisfy a test, counted.
RECURSIVE CountImplicit(_)
CountImplicit(slots) ==
    IF Len(slots) = 0 THEN 0
    ELSE (IF IsImplicit(Head(slots)) THEN 1 ELSE 0) + CountImplicit(Tail(slots))

RemoveAt(seq, i) == SubSeq(seq, 1, i - 1) \o SubSeq(seq, i + 1, Len(seq))

\* How often a signal interrupts the read or write of one call: not at all,
\* or once (every further interruption takes the same turn of the loop).
Interruptions == {0, 1}

\* client c's caller calls TryAcquire and keeps the slot if it is valid.
TryAcquire(c) ==
    /\ clients[c].alive
    /\ \E eintr \in Interruptions :
          \E r \in {TryAcquireCall(clients[c], fds, pipe, eintr)} :
              /\ clients' = [clients EXCEPT ![c] = r.client]
              /\ pipe' = r.bytes
              /\ held' = [held EXCEPT ![c] = IF IsValid(r.slot) THEN Append(@, r.slot) ELSE @]
              /\ last' = [NoCall EXCEPT !.op = "TryAcquire", !.client = c, !.slot = r.slot,
                                        !.ok = IsValid(r.slot),
                                        !.implicit_before = CountImplicit(held[c]),
                                        !.held_before = Len(held[c])]
    /\ UNCHANGED <<environ, fs, fds, pipe0, pool, node_created, released, lost,
                   assert_failed>>
    /\ UNCHANGED OutsideJobserver

\* client c's caller gives back the i-th slot it holds; the write of the
\* token byte fails (last.fail = "write"), is interrupted by a signal before
\* it is served ("EINTR"), or is served at once ("none").
Release(c, i) ==
    /\ clients[c].alive
    /\ i \in 1..Len(held[c])
    /\ \E io_ok \in BOOLEAN, eintr \in Interruptions :
          \E r \in {ReleaseCall(clients[c], held[c][i], fds, pipe, io_ok, eintr)} :
              /\ clients' = [clients EXCEPT ![c] = r.client]
              /\ pipe' = r.bytes
              /\ lost' = lost \o r.dropped
              /\ assert_failed' = (assert_failed \/ r.asserted)
              /\ last' = [NoCall EXCEPT !.op = "Release", !.client = c, !.slot = held[c][i],
                                        !.ok = (r.dropped = ""),
                                        !.fail = IF ~io_ok THEN "write"
                                                 ELSE IF eintr > 0 THEN "EINTR"
                                                 ELSE "none",
                                        !.implicit_before = CountImplicit(held[c]),
                                        !.held_before = Len(held[c])]
    /\ held' = [held EXCEPT ![c] = RemoveAt(@, i)]
    /\ released' = TRUE
    /\ UNCHANGED <<environ, fs, fds, pipe0, pool, node_created>>
    /\ UNCHANGED OutsideJobserver

\* client c's caller releases the Invalid slot a failed TryAcquire returned.
ReleaseInvalid(c) ==
    /\ clients[c].alive
    /\ \E r \in {ReleaseCall(clients[c], InvalidSlot, fds, pipe, TRUE, 0)} :
           /\ clients' = [clients EXCEPT ![c] = r.client]
           /\ pipe' = r.bytes
           /\ lost' = lost \o r.dropped
           /\ assert_failed' = (assert_failed \/ r.asserted)
           /\ last' = [NoCall EXCEPT !.op = "Release", !.client = c, !.ok = TRUE,
                                     !.implicit_before = CountImplicit(held[c]),
                                     !.held_before = Len(held[c])]
    /\ UNCHANGED <<environ, fs, fds, pipe0, pool, node_created, held, released>>
    /\ UNCHANGED OutsideJobserver

\* Client::Create(config) for client c.  The clients are created in the
\* order of their names, which are the model's and not the program's.
ClientCreate(c, config, fail, from_env) ==
    /\ ~clients[c].alive
    /\ \A b \in Clients : b < c => clients[b].alive
    /\ \E r \in {ClientCreateCall(config, fs, fds, fail)} :
           /\ clients' = [clients EXCEPT ![c] = r.client]
           /\ fds' = r.fds
           /\ last' = [NoCall EXCEPT !.op = "ClientCreate", !.client = c, !.ok = r.ok,
                                     !.mode = config.mode, !.fail = fail,
                                     !.from_env = from_env, !.error = r.error,
                                     !.config = config]
    /\ UNCHANGED <<environ, fs, pipe, pipe0, pool, node_created, held, released,
                   lost, assert_failed>>
    /\ UNCHANGED OutsideJobserver

\* The system calls a Client::Create may see fail.
ClientFailures == {"none", "read", "write"}

\* A client is created from the Config parsed from the pool's env string.
ClientCreateFromEnv(c) ==
    /\ pool.alive
    /\ \E parsed \in {ParseMakeFlagsValue(GetEnvMakeFlagsValue(pool))} :
          /\ parsed.ok
          /\ \E fail \in ClientFailures : ClientCreate(c, parsed.config, fail, TRUE)

\* The outcomes of the system calls of one Pool::Create: the call made to
\* fail ("none": all succeed), and how each write of FillSlots ends.
WriteOutcomes == {"ok", "EINTR", "error"}

SysOutcomes(num_job_slots) ==
    [fail : {"none", "pipe", "mknod", "open"},
     w : [1..(IF num_job_slots > 1 THEN num_job_slots - 1 ELSE 0) -> WriteOutcomes]]

PoolModes == {kModeFileDescriptors, kModePosixFifo, kModeWin32Semaphore}

\* Pool::Create(num_job_slots, mode), before any client exists.
PoolCreate(num_job_slots, mode) ==
    /\ ~pool.alive
    /\ \A c \in Clients : ~clients[c].alive
    /\ \E sys \in SysOutcomes(num_job_slots) :
          \E r \in {PoolCreateCall(num_job_slots, mode, environ, fs, fds, pipe, sys)} :
              /\ pool' = r.pool
              /\ fs' = r.fs
              /\ fds' = r.fds
              /\ pipe' = r.bytes
              /\ pipe0' = r.bytes
              /\ node_created' = r.created
              /\ last' = [NoCall EXCEPT !.op = "PoolCreate", !.ok = r.ok,
                                        !.slots = num_job_slots, !.mode = mode,
                                        !.node_before = NodeKind(fs, FifoPath(environ)),
                                        !.error = r.error]
    /\ UNCHANGED <<environ, clients, held, released, lost, assert_failed>>
    /\ UNCHANGED OutsideJobserver

\* The pool object is destroyed.
PoolDestroy ==
    /\ pool.alive
    /\ \E d \in {PoolDestructor(pool, fs, fds, pipe)} :
           /\ fs' = d.fs
           /\ fds' = d.fds
           /\ pipe' = d.bytes
    /\ pool' = NoPool
    /\ last' = [NoCall EXCEPT !.op = "PoolDestroy", !.ok = TRUE, !.slots = pool.job_count_,
                              !.node_before = NodeKind(fs, FifoPath(environ))]
    /\ UNCHANGED <<environ, pipe0, node_created, clients, held, released, lost,
                   assert_failed>>
    /\ UNCHANGED OutsideJobserver

(***************************************************************************)
(* Spec: clients of a pool that another program (GNU Make, a test) made    *)
(* as a FIFO holding distinct token bytes and keeps open.                  *)
(***************************************************************************)
ExternalFifo == "/fifo"

RegularFile == "/not_a_fifo"

\* The first k token bytes such a pool is given: '0', '1', ...
TokenBytes(k) == SubSeq(DecimalDigits, 1, k)

\* The Config of a client of that pool.
ExternalConfig == [DefaultConfig EXCEPT !.mode = kModePosixFifo, !.path = ExternalFifo]

InitObjects ==
    /\ pool = NoPool
    /\ node_created = FALSE
    /\ clients = [c \in Clients |-> NoClient]
    /\ held = [c \in Clients |-> <<>>]
    /\ released = FALSE
    /\ lost = ""
    /\ assert_failed = FALSE
    /\ last = NoCall

Init ==
    /\ environ = [tmpdir_set |-> FALSE, tmpdir |-> "", pid |-> 7]
    /\ fs = WithNode(WithNode(<<>>, ExternalFifo, "fifo"), RegularFile, "file")
    /\ fds = WithFd(<<>>, 3, "pipe_rw")
    /\ pipe0 \in {TokenBytes(k) : k \in 0..MaxTokens}
    /\ pipe = pipe0
    /\ InitObjects
    /\ ParserUnused
    /\ SubprocessUnused
    /\ TableUnused
    /\ PathUnused
    /\ PrinterUnused

Next ==
    \/ \E c \in Clients, fail \in ClientFailures :
          ClientCreate(c, ExternalConfig, fail, FALSE)
    \/ \E c \in Clients : TryAcquire(c)
    \/ \E c \in Clients : \E i \in 1..Len(held[c]) : Release(c, i)
    \/ \E c \in Clients : ReleaseInvalid(c)

Spec == Init /\ [][Next]_vars

(***************************************************************************)
(* PoolSpec: the program creates its own pool, exports it, and a client is *)
(* made from the exported text.                                            *)
(***************************************************************************)
\* TMPDIR: unset, a directory, a directory whose name holds a space.
Environs ==
    { [tmpdir_set |-> FALSE, tmpdir |-> "", pid |-> 12],
      [tmpdir_set |-> TRUE, tmpdir |-> "/t", pid |-> 7],
      [tmpdir_set |-> TRUE, tmpdir |-> "/my tmp", pid |-> 7] }

\* The descriptors the process holds open (beyond 0, 1, 2) before the call.
OpenFiles == { <<>>, [f \in 3..9 |-> "file"] }

PoolInit ==
    /\ environ \in Environs
    /\ fs \in { <<>>, WithNode(<<>>, FifoPath(environ), "stale") }
    /\ fds \in OpenFiles
    /\ pipe0 = ""
    /\ pipe = ""
    /\ InitObjects
    /\ ParserUnused
    /\ SubprocessUnused
    /\ TableUnused
    /\ PathUnused
    /\ PrinterUnused

PoolNext ==
    \/ \E n \in 0..MaxSlots, mode \in PoolModes : PoolCreate(n, mode)
    \/ PoolDestroy
    \/ ClientCreateFromEnv(1)
    \/ TryAcquire(1)
    \/ \E i \in 1..Len(held[1]) : Release(1, i)
    \/ ReleaseInvalid(1)

PoolSpec == PoolInit /\ [][PoolNext]_vars

(***************************************************************************)
(* ParseSpec: the parser is called on texts put together from words.       *)
(***************************************************************************)
\* Largest number of words in a text.
MaxWords == 2

\* The words: the forms of --jobserver-auth= and --jobserver-fds= (a pair,
\* a pair with a negative descriptor, half a pair, a pair followed by
\* another character, a FIFO, a semaphore), flag letters with and without
\* 'n', and options the parser does not know.
MakeWords ==
    { "--jobserver-auth=3,4", "--jobserver-auth=-1,5", "--jobserver-auth=7,",
      "--jobserver-auth=fifo:/f", "--jobserver-auth=sn",
      "--jobserver-fds=5,6", "--jobserver-fds=5,-6", "--jobserver-fds=7,",
      "--jobserver-fds=8,9x",
      "kns", "-nk", "-j3" }

\* How the words are laid out: what stands before the first word, between
\* two words, and after the last.
Layouts ==
    { [lead |-> "", sep |-> " ", trail |-> ""],
      [lead |-> " ", sep |-> "\t", trail |-> ""],
      [lead |-> "\t", sep |-> "  ", trail |-> " "] }

RECURSIVE JoinWords(_, _)
JoinWords(ws, sep) ==
    IF Len(ws) = 0 THEN ""
    ELSE IF Len(ws) = 1 THEN ws[1]
    ELSE ws[1] \o sep \o JoinWords(Tail(ws), sep)

WordLists == UNION { [1..n -> MakeWords] : n \in 0..MaxWords }

\* The jobserver objects, when no call is made on them.
JobserverUnused ==
    /\ environ = [tmpdir_set |-> FALSE, tmpdir |-> "", pid |-> 7]
    /\ fs = <<>>
    /\ fds = <<>>
    /\ pipe0 = ""
    /\ pipe = ""
    /\ InitObjects

ParseInit ==
    /\ words \in WordLists
    /\ \E l \in Layouts : makeflags_env = l.lead \o JoinWords(words, l.sep) \o l.trail
    /\ parse = NoParse
    /\ JobserverUnused
    /\ SubprocessUnused
    /\ TableUnused
    /\ PathUnused
    /\ PrinterUnused

\* ParseMakeFlagsValue(makeflags_env, &config, &error).
Parse ==
    /\ parse.call = "none"
    /\ \E r \in {ParseMakeFlagsValue(makeflags_env)} :
          parse' = [call |-> "ParseMakeFlagsValue", platform |-> "", ok |-> r.ok,
                    config |-> r.config, error |-> r.error]
    /\ UNCHANGED <<words, makeflags_env>>
    /\ UNCHANGED OutsideParser

\* ParseNativeMakeFlagsValue(makeflags_env, &config, &error) of a build for
\* the platform.
ParseNative(platform) ==
    /\ parse.call = "none"
    /\ \E r \in {ParseNativeMakeFlagsValue(makeflags_env, platform)} :
          parse' = [call |-> "ParseNativeMakeFlagsValue", platform |-> platform,
                    ok |-> r.ok, config |-> r.config, error |-> r.error]
    /\ UNCHANGED <<words, makeflags_env>>
    /\ UNCHANGED OutsideParser

Platforms == {"posix", "win32"}

ParseNext ==
    \/ Parse
    \/ \E platform \in Platforms : ParseNative(platform)

ParseSpec == ParseInit /\ [][ParseNext]_vars

(***************************************************************************)
(* CreateSpec: Client::Create is given Configs of every mode, with         *)
(* endpoints that are and are not FIFOs.                                   *)
(***************************************************************************)
\* The descriptors open when the client is created: the external FIFO, a
\* regular file, and the two ends of a pipe on the same pool.
InheritedFds ==
    WithFd(WithFd(WithFd(WithFd(<<>>, 3, "pipe_rw"), 4, "file"), 5, "pipe_r"), 6, "pipe_w")

ClientConfigs ==
    { DefaultConfig,
      [DefaultConfig EXCEPT !.mode = kModeWin32Semaphore, !.path = "sn"],
      [DefaultConfig EXCEPT !.mode = kModePosixFifo],
      [DefaultConfig EXCEPT !.mode = kModePosixFifo, !.path = RegularFile],
      [DefaultConfig EXCEPT !.mode = kModePosixFifo, !.path = "/absent"],
      ExternalConfig,
      [DefaultConfig EXCEPT !.mode = kModeFileDescriptors, !.read_fd = 5, !.write_fd = 6],
      [DefaultConfig EXCEPT !.mode = kModeFileDescriptors, !.read_fd = 4, !.write_fd = 6],
      [DefaultConfig EXCEPT !.mode = kModeFileDescriptors, !.read_fd = 5, !.write_fd = 9],
      [DefaultConfig EXCEPT !.mode = kModeFileDescriptors, !.read_fd = 5, !.write_fd = -6] }

CreateInit ==
    /\ environ = [tmpdir_set |-> FALSE, tmpdir |-> "", pid |-> 7]
    /\ fs = WithNode(WithNode(<<>>, ExternalFifo, "fifo"), RegularFile, "file")
    /\ fds = InheritedFds
    /\ pipe0 \in {TokenBytes(k) : k \in 0..MaxTokens}
    /\ pipe = pipe0
    /\ InitObjects
    /\ ParserUnused
    /\ SubprocessUnused
    /\ TableUnused
    /\ PathUnused
    /\ PrinterUnused

\* The client object is destroyed; the slots its caller holds go with it.
ClientDestroy(c) ==
    /\ clients[c].alive
    /\ fds' = ClientDestructor(clients[c], fds)
    /\ clients' = [clients EXCEPT ![c] = NoClient]
    /\ held' = [held EXCEPT ![c] = <<>>]
    /\ last' = [NoCall EXCEPT !.op = "ClientDestroy", !.client = c, !.ok = TRUE]
    /\ UNCHANGED <<environ, fs, pipe, pipe0, pool, node_created, released, lost,
                   assert_failed>>
    /\ UNCHANGED OutsideJobserver

CreateNext ==
    \/ \E config \in ClientConfigs, fail \in ClientFailures :
          ClientCreate(1, config, fail, FALSE)
    \/ TryAcquire(1)
    \/ \E i \in 1..Len(held[1]) : Release(1, i)
    \/ ClientDestroy(1)

CreateSpec == CreateInit /\ [][CreateNext]_vars
(***************************************************************************)
(* Subprocess and its OutputPipes (Windows).  pipe_ is modelled by whether *)
(* it holds a handle (FALSE: INVALID_HANDLE_VALUE), child_ by whether it   *)
(* holds one (FALSE: NULL).                                                *)
(***************************************************************************)
\* Largest number of subprocesses added to the set.
MaxProcs == 2

Streams == {"stdout", "stderr"}

\* An OutputPipe as constructed.
NoPipe == [pipe_ |-> FALSE, is_reading_ |-> FALSE, buf_ |-> ""]

\* Subprocess::Subprocess(use_console).  `deleted` tells that the object
\* was destroyed and its memory given back.
NewSubprocess(use_console) ==
    [use_console_ |-> use_console, child_ |-> FALSE, stdout_pipe_ |-> NoPipe,
     stderr_pipe_ |-> NoPipe, combined_output_ |-> "", deleted |-> FALSE]

PipeOf(sub, which) == IF which = "stdout" THEN sub.stdout_pipe_ ELSE sub.stderr_pipe_

WithPipe(sub, which, p) ==
    IF which = "stdout" THEN [sub EXCEPT !.stdout_pipe_ = p]
    ELSE [sub EXCEPT !.stderr_pipe_ = p]

\* OutputPipe::IsClosed.
IsClosed(p) == ~p.pipe_

\* OutputPipe::Close.
Close(p) == [p EXCEPT !.pipe_ = FALSE]

\* Variant of Done: the state of stderr is not looked at.
DoneOnStdoutOnly(sub) == IsClosed(sub.stdout_pipe_)

\* Subprocess::Done.
Done(sub) == IsClosed(sub.stdout_pipe_) /\ IsClosed(sub.stderr_pipe_)

\* Subprocess::GetStdout, GetStderr.
GetStdout(sub) == sub.stdout_pipe_.buf_

GetStderr(sub) == sub.stderr_pipe_.buf_

(***************************************************************************)
(* The kernel's side of a named pipe: the overlapped operation on its read *)
(* end ("none", "pending", or "queued": completed, its packet is on the    *)
(* port), the bytes written and not yet read, and whether a write handle   *)
(* is open.  At most one operation is in progress on a pipe.               *)
(***************************************************************************)
NoKernelPipe == [op |-> "none", data |-> "", writer |-> FALSE]

\* A completion packet: the key (the Subprocess, 0 for NULL), the
\* OVERLAPPED it belongs to (by the stream of its pipe), the bytes the
\* operation put in overlapped_buf_, and whether it ended with
\* ERROR_BROKEN_PIPE.
Packet(key, which, bytes, broken) ==
    [key |-> key, which |-> which, bytes |-> bytes, broken |-> broken]

\* What NotifyInterrupted posts.
InterruptPacket == Packet(0, "", "", FALSE)

\* OutputPipe::Setup: the pipe is created and tied to the port,
\* ConnectNamedPipe is started, and CreateFileA connects the write end, which
\* completes the connect: [pipe, kpipe, packet].
OutputPipeSetup(key, which) ==
    [pipe   |-> [NoPipe EXCEPT !.pipe_ = TRUE],
     kpipe  |-> [op |-> "queued", data |-> "", writer |-> TRUE],
     packet |-> Packet(key, which, "", FALSE)]

\* Variant of ProgramNotFound: the message without its head.
ProgramNotFoundBare == "The system cannot find the file specified.\n"

ProgramNotFound == "CreateProcess failed: The system cannot find the file specified.\n"

\* Exit codes are DWORDs; the model holds each as the int that the cast to
\* ExitStatus gives (the same 32 bits, in two's complement).
\* CONTROL_C_EXIT is the exit code of a process that Ctrl-C or Ctrl-Break
\* ended (winnt.h: STATUS_CONTROL_C_EXIT, 0xC000013A).
CONTROL_C_EXIT == 0 - 1073741510

\* ExitStatus.  Its enumerators are declared in exit_status.h; Finish casts
\* the child's exit code to it, so that ExitSuccess is exit code 0.
ExitSuccess == 0

ExitFailure == 1

ExitInterrupted == 130

\* No child process: CreateProcessA made none.  Else state is "running" or
\* "exited", script what the child has still to write, exit_code what
\* GetExitCodeProcess gives once it has exited.
NoChild == [state |-> "none", script |-> <<>>, exit_code |-> 0]

\* Subprocess::Start of subprocess `key`: [sub, kpipe, child, packets, fatal].
\* command.error is what CreateProcessA fails with ("none": it starts the
\* child), command.script what the child writes.  A console child writes to
\* the console, which is not held here.
Start(key, sub, command) ==
    LET out  == OutputPipeSetup(key, "stdout")
        err  == OutputPipeSetup(key, "stderr")
        s1   == IF sub.use_console_ THEN sub
                ELSE [sub EXCEPT !.stdout_pipe_ = out.pipe, !.stderr_pipe_ = err.pipe]
        made == command.error = "none"
        \* the parent closes its write ends; the child holds the inherited ones
        k1   == IF sub.use_console_
                THEN [w \in Streams |-> NoKernelPipe]
                ELSE [w \in Streams |->
                        [(IF w = "stdout" THEN out.kpipe ELSE err.kpipe)
                            EXCEPT !.writer = made]]
        pk   == IF sub.use_console_ THEN <<>> ELSE <<out.packet, err.packet>>
        none == NoChild
    IN  IF command.error = "ERROR_FILE_NOT_FOUND"
        THEN [sub |-> [s1 EXCEPT !.stdout_pipe_ = Close(@),
                                 !.stderr_pipe_ = [Close(@) EXCEPT !.buf_ = ProgramNotFound]],
              kpipe |-> [w \in Streams |-> NoKernelPipe],
              child |-> none, packets |-> pk, fatal |-> ""]
        ELSE IF ~made
        THEN [sub |-> s1, kpipe |-> k1, child |-> none, packets |-> pk,
              fatal |-> "CreateProcess"]
        ELSE [sub |-> [s1 EXCEPT !.child_ = TRUE], kpipe |-> k1,
              child |-> [NoChild EXCEPT !.state = "running",
                            !.script = IF sub.use_console_ THEN <<>> ELSE command.script],
              packets |-> pk, fatal |-> ""]

\* Variant of AppendRead that puts the bytes read in front.
PrependRead(buf, bytes) == bytes \o buf

\* buf_.append(overlapped_buf_, bytes).
AppendRead(buf, bytes) == buf \o bytes

\* OutputPipe::OnPipeReady on the pipe p of subprocess `key`, for the
\* completed operation the packet tells of: [pipe, kpipe, packets, read,
\* fatal].  GetOverlappedResult has no handle to ask when pipe_ is
\* INVALID_HANDLE_VALUE.
OnPipeReady(key, which, p, k, packet) ==
    IF ~p.pipe_
    THEN [pipe |-> p, kpipe |-> k, packets |-> <<>>, read |-> "",
          fatal |-> "GetOverlappedResult"]
    ELSE IF packet.broken
    THEN [pipe |-> Close(p), kpipe |-> [k EXCEPT !.op = "none"], packets |-> <<>>,
          read |-> "", fatal |-> ""]
    ELSE LET got == IF p.is_reading_ THEN packet.bytes ELSE ""
             p1  == [p EXCEPT !.buf_ = AppendRead(@, got), !.is_reading_ = TRUE]
         IN  IF k.data # ""
             THEN \* ReadFile finds bytes: it completes, and its packet is queued
                  [pipe |-> p1, kpipe |-> [k EXCEPT !.op = "queued", !.data = ""],
                   packets |-> <<Packet(key, which, k.data, FALSE)>>, read |-> got,
                   fatal |-> ""]
             ELSE IF ~k.writer
             THEN \* ReadFile fails with ERROR_BROKEN_PIPE
                  [pipe |-> Close(p1), kpipe |-> [k EXCEPT !.op = "none"],
                   packets |-> <<>>, read |-> got, fatal |-> ""]
             ELSE [pipe |-> p1, kpipe |-> [k EXCEPT !.op = "pending"],
                   packets |-> <<>>, read |-> got, fatal |-> ""]

(***************************************************************************)
(* SubprocessSet (Windows): its calls, and what the children and the       *)
(* console do meanwhile.                                                   *)
(***************************************************************************)
\* finished_.front() / finished_.pop() / finished_.push().
\* Variant of FinishedFront: the youngest entry is returned.
FinishedBack(queue) == queue[Len(queue)]

FinishedFront(queue) == Head(queue)

FinishedPop(queue) == Tail(queue)

\* Variant of RemoveFromRunning: the vector is left as it is.
KeepInRunning(running, key) == running

\* std::remove(running_.begin(), running_.end(), subproc) and the resize.
RemoveFromRunning(running, key) == SelectSeq(running, LAMBDA x : x # key)

InSeq(seq, x) == \E i \in 1..Len(seq) : seq[i] = x

\* What the child of a command writes: nothing, or a chunk on stdout and
\* then one on stderr.
Talks == << [stream |-> "stdout", bytes |-> "o"], [stream |-> "stderr", bytes |-> "e"] >>

Commands ==
    { [error |-> "none", script |-> <<>>],
      [error |-> "none", script |-> Talks],
      [error |-> "ERROR_FILE_NOT_FOUND", script |-> <<>>],
      [error |-> "ERROR_INVALID_PARAMETER", script |-> <<>>] }

\* SubprocessSet::Add(command, use_console).
Add(command, use_console) ==
    /\ fatal = ""
    /\ Len(subs) < MaxProcs
    /\ \E r \in {Start(Len(subs) + 1, NewSubprocess(use_console), command)} :
          IF r.fatal # ""
          THEN /\ fatal' = r.fatal
               /\ work' = [op |-> "Add", subproc |-> 0, ret |-> FALSE, status |-> 0, signalled |-> {}]
               /\ UNCHANGED <<subs, kpipes, children, running_, finished_, ioport,
                              arrival, entered>>
          ELSE LET key == Len(subs) + 1
               IN  /\ subs' = Append(subs, r.sub)
                   /\ kpipes' = Append(kpipes, r.kpipe)
                   /\ children' = Append(children, r.child)
                   /\ ioport' = ioport \o r.packets
                   /\ arrival' = Append(arrival, GetStdout(r.sub) \o GetStderr(r.sub))
                   /\ IF r.sub.child_
                      THEN /\ running_' = Append(running_, key)
                           /\ UNCHANGED <<finished_, entered>>
                      ELSE /\ finished_' = Append(finished_, key)
                           /\ entered' = Append(entered, [subproc |-> key, by |-> "Add"])
                           /\ UNCHANGED running_
                   /\ work' = [op |-> "Add", subproc |-> key, ret |-> TRUE, status |-> 0, signalled |-> {}]
                   /\ UNCHANGED fatal
    /\ UNCHANGED handed
    /\ UNCHANGED OutsideSubprocess

\* What a read through a pointer to a destroyed Subprocess may end in.
UseAfterFree == {"GetOverlappedResult", "Unknown overlapped pointer", "access violation"}

\* Variant of WokenByInterrupt: a packet that brings no bytes is taken for
\* the interrupt notification as well.
WokenByQuietPacket(packet) == packet.key = 0 \/ (packet.bytes = "" /\ ~packet.broken)

\* `if (!subproc)`: the packet dequeued is the one NotifyInterrupted posts.
WokenByInterrupt(packet) == packet.key = 0

\* SubprocessSet::DoWork.  It waits while the port holds no packet.
DoWork ==
    /\ fatal = ""
    /\ ioport # <<>>
    /\ LET packet == Head(ioport)
           key    == packet.key
       IN  IF WokenByInterrupt(packet)
           THEN /\ ioport' = Tail(ioport)
                /\ work' = [op |-> "DoWork", subproc |-> 0, ret |-> TRUE, status |-> 0, signalled |-> {}]
                /\ UNCHANGED <<subs, kpipes, running_, finished_, fatal, arrival, entered>>
           ELSE IF subs[key].deleted
           THEN /\ fatal' \in UseAfterFree
                /\ ioport' = Tail(ioport)
                /\ work' = [op |-> "DoWork", subproc |-> key, ret |-> FALSE, status |-> 0, signalled |-> {}]
                /\ UNCHANGED <<subs, kpipes, running_, finished_, arrival, entered>>
           ELSE \E r \in {OnPipeReady(key, packet.which, PipeOf(subs[key], packet.which),
                                      kpipes[key][packet.which], packet)} :
                  LET sub == WithPipe(subs[key], packet.which, r.pipe)
                  IN  /\ fatal' = r.fatal
                      /\ ioport' = Tail(ioport) \o r.packets
                      /\ subs' = [subs EXCEPT ![key] = sub]
                      /\ kpipes' = [kpipes EXCEPT ![key][packet.which] = r.kpipe]
                      /\ arrival' = [arrival EXCEPT ![key] = @ \o r.read]
                      /\ IF r.fatal = "" /\ Done(sub) /\ InSeq(running_, key)
                         THEN /\ running_' = RemoveFromRunning(running_, key)
                              /\ finished_' = Append(finished_, key)
                              /\ entered' = Append(entered,
                                                   [subproc |-> key, by |-> "DoWork"])
                         ELSE UNCHANGED <<running_, finished_, entered>>
                      /\ work' = [op |-> "DoWork", subproc |-> key, ret |-> FALSE, status |-> 0, signalled |-> {}]
    /\ UNCHANGED <<children, handed>>
    /\ UNCHANGED OutsideSubprocess

\* SubprocessSet::NextFinished.
NextFinished ==
    /\ fatal = ""
    /\ IF finished_ = <<>>
       THEN /\ work' = [op |-> "NextFinished", subproc |-> 0, ret |-> FALSE, status |-> 0, signalled |-> {}]
            /\ UNCHANGED <<finished_, handed>>
       ELSE /\ work' = [op |-> "NextFinished", subproc |-> FinishedFront(finished_),
                        ret |-> TRUE, status |-> 0, signalled |-> {}]
            /\ handed' = Append(handed, FinishedFront(finished_))
            /\ finished_' = FinishedPop(finished_)
    /\ UNCHANGED <<subs, kpipes, children, running_, ioport, fatal, arrival, entered>>
    /\ UNCHANGED OutsideSubprocess

\* The value Finish returns for the exit code of the child.
ExitStatusOf(exit_code) ==
    IF exit_code = CONTROL_C_EXIT THEN ExitInterrupted ELSE exit_code

\* Whether Finish on subprocess `key` is held in WaitForSingleObject.
FinishWaits(key) == subs[key].child_ /\ children[key].state # "exited"

\* Subprocess::Finish on subprocess `key`, by the caller, who got the
\* pointer from Add or NextFinished.  work.ret tells whether there was a child
\* to wait for.
Finish(key) ==
    /\ fatal = ""
    /\ key \in DOMAIN subs
    /\ ~subs[key].deleted
    /\ ~FinishWaits(key)
    /\ IF ~subs[key].child_
       THEN /\ work' = [op |-> "Finish", subproc |-> key, ret |-> FALSE,
                        status |-> ExitFailure, signalled |-> {}]
            /\ UNCHANGED subs
       ELSE /\ work' = [op |-> "Finish", subproc |-> key, ret |-> TRUE,
                        status |-> ExitStatusOf(children[key].exit_code), signalled |-> {}]
            /\ subs' = [subs EXCEPT ![key].child_ = FALSE]
    /\ UNCHANGED <<kpipes, children, running_, finished_, ioport, fatal, arrival, entered,
                   handed>>
    /\ UNCHANGED OutsideSubprocess

\* Variant of CtrlBreakTargets that leaves out the test of use_console_.
CtrlBreakAll(running, subprocs) ==
    { key \in DOMAIN subprocs : InSeq(running, key) /\ subprocs[key].child_ }

\* The subprocesses the first loop of Clear calls GenerateConsoleCtrlEvent
\* for.
CtrlBreakTargets(running, subprocs) ==
    { key \in DOMAIN subprocs :
        InSeq(running, key) /\ subprocs[key].child_ /\ ~subprocs[key].use_console_ }

\* SubprocessSet::Clear.  The children that get CTRL_BREAK end; deleting a
\* subprocess closes its pipes and, in Finish, waits until its child has
\* ended.  Packets already on the port stay there.  work.signalled holds
\* the subprocesses whose child was sent CTRL_BREAK.
Clear ==
    /\ fatal = ""
    /\ subs' = [key \in DOMAIN subs |->
                  IF InSeq(running_, key)
                  THEN [subs[key] EXCEPT !.stdout_pipe_ = Close(@),
                                         !.stderr_pipe_ = Close(@),
                                         !.child_ = FALSE, !.deleted = TRUE]
                  ELSE subs[key]]
    /\ kpipes' = [key \in DOMAIN kpipes |->
                    IF InSeq(running_, key) THEN [w \in Streams |-> NoKernelPipe]
                    ELSE kpipes[key]]
    /\ children' = [key \in DOMAIN children |->
                      IF InSeq(running_, key) /\ subs[key].child_
                      THEN [state |-> "exited", script |-> <<>>,
                            exit_code |-> IF children[key].state = "exited"
                                          THEN children[key].exit_code
                                          ELSE CONTROL_C_EXIT]
                      ELSE children[key]]
    /\ running_' = <<>>
    /\ work' = [op |-> "Clear", subproc |-> 0, ret |-> TRUE, status |-> 0,
                signalled |-> CtrlBreakTargets(running_, subs)]
    /\ UNCHANGED <<finished_, ioport, fatal, arrival, entered, handed>>
    /\ UNCHANGED OutsideSubprocess

\* The child of subprocess `key` writes the next chunk of its script: it
\* completes the read that is pending on the pipe, or waits in the pipe.
ChildWrite(key) ==
    /\ fatal = ""
    /\ key \in DOMAIN children
    /\ children[key].state = "running"
    /\ children[key].script # <<>>
    /\ LET item == Head(children[key].script)
           k    == kpipes[key][item.stream]
       IN  IF k.op = "pending"
           THEN /\ kpipes' = [kpipes EXCEPT ![key][item.stream].op = "queued"]
                /\ ioport' = Append(ioport, Packet(key, item.stream, item.bytes, FALSE))
           ELSE /\ kpipes' = [kpipes EXCEPT ![key][item.stream].data = @ \o item.bytes]
                /\ UNCHANGED ioport
    /\ children' = [children EXCEPT ![key].script = Tail(@)]
    /\ UNCHANGED <<subs, running_, finished_, fatal, arrival, entered, handed, work>>
    /\ UNCHANGED OutsideSubprocess

\* The child of subprocess `key` ends with exit_code, having written its script: its
\* write handles close, and a read pending on a pipe it left empty ends
\* with ERROR_BROKEN_PIPE.
ChildExit(key, exit_code) ==
    /\ fatal = ""
    /\ key \in DOMAIN children
    /\ children[key].state = "running"
    /\ children[key].script = <<>>
    /\ children' = [children EXCEPT ![key].state = "exited", ![key].exit_code = exit_code]
    /\ LET broke(w) == kpipes[key][w].op = "pending" /\ kpipes[key][w].data = ""
       IN  /\ kpipes' = [kpipes EXCEPT ![key] =
                           [w \in Streams |->
                              [kpipes[key][w] EXCEPT !.writer = FALSE,
                                  !.op = IF broke(w) THEN "queued" ELSE @]]]
           /\ ioport' = ioport
                        \o (IF broke("stdout") THEN <<Packet(key, "stdout", "", TRUE)>>
                            ELSE <<>>)
                        \o (IF broke("stderr") THEN <<Packet(key, "stderr", "", TRUE)>>
                            ELSE <<>>)
    /\ UNCHANGED <<subs, running_, finished_, fatal, arrival, entered, handed, work>>
    /\ UNCHANGED OutsideSubprocess

\* Ctrl-C or Ctrl-Break on the console: NotifyInterrupted posts a packet
\* with a NULL key.  One is kept on the port at a time.
Interrupt ==
    /\ fatal = ""
    /\ ~InSeq(ioport, InterruptPacket)
    /\ ioport' = Append(ioport, InterruptPacket)
    /\ UNCHANGED <<subs, kpipes, children, running_, finished_, fatal, arrival, entered,
                   handed, work>>
    /\ UNCHANGED OutsideSubprocess

(***************************************************************************)
(* SubprocSpec: commands are added to a set, their children run, and the   *)
(* caller works the set.                                                   *)
(***************************************************************************)
SubprocInit ==
    /\ SubprocessUnused
    /\ JobserverUnused
    /\ ParserUnused
    /\ TableUnused
    /\ PathUnused
    /\ PrinterUnused

SubprocNext ==
    \/ \E command \in Commands, use_console \in BOOLEAN : Add(command, use_console)
    \/ DoWork
    \/ NextFinished
    \/ Clear
    \/ \E key \in 1..MaxProcs : ChildWrite(key)
    \/ \E key \in 1..MaxProcs : ChildExit(key, ExitSuccess)

SubprocSpec == SubprocInit /\ [][SubprocNext]_vars

\* SubprocLiveSpec: the same, with a caller that goes on calling DoWork.
SubprocLiveSpec == SubprocSpec /\ WF_vars(DoWork)

\* InterruptSpec: the set is worked while Ctrl-C is pressed at any time.
InterruptNext ==
    \/ \E command \in Commands, use_console \in BOOLEAN : Add(command, use_console)
    \/ DoWork
    \/ \E key \in 1..MaxProcs : ChildWrite(key)
    \/ \E key \in 1..MaxProcs : ChildExit(key, ExitSuccess)
    \/ Interrupt

InterruptSpec == SubprocInit /\ [][InterruptNext]_vars

\* FinishSpec: the children end with any of these exit codes, and the caller
\* calls Finish on the subprocesses Add and NextFinished gave it.  Finish
\* looks at child_ only, so the pipes are left unread here.
ExitCodes == {0, 1, 130, CONTROL_C_EXIT}

\* The commands of FinishSpec: one whose child writes nothing, and one
\* whose program is not found.
FinishCommands == { c \in Commands : c.script = <<>> /\ c.error # "ERROR_INVALID_PARAMETER" }

FinishNext ==
    \/ \E command \in FinishCommands, use_console \in BOOLEAN : Add(command, use_console)
    \/ NextFinished
    \/ \E key \in 1..MaxProcs, exit_code \in ExitCodes : ChildExit(key, exit_code)
    \/ \E key \in 1..MaxProcs : Finish(key)

FinishSpec == SubprocInit /\ [][FinishNext]_vars

\* StreamSpec: children that write twice on one stream, or whose program is
\* not found; the caller works the set and calls Finish on the subprocesses
\* that are done.
Chatter == << [stream |-> "stdout", bytes |-> "o"], [stream |-> "stdout", bytes |-> "p"] >>

StreamCommands ==
    { [error |-> "none", script |-> Chatter],
      [error |-> "ERROR_FILE_NOT_FOUND", script |-> <<>>] }

StreamNext ==
    \/ \E command \in StreamCommands : Add(command, FALSE)
    \/ DoWork
    \/ \E key \in 1..MaxProcs : ChildWrite(key)
    \/ \E key \in 1..MaxProcs : ChildExit(key, ExitSuccess)
    \/ \E key \in DOMAIN subs : Done(subs[key]) /\ Finish(key)

StreamSpec == SubprocInit /\ [][StreamNext]_vars

\* ClearSpec: as FinishSpec, and the caller clears the set at any time, also
\* when it holds subprocesses whose child was reaped by Finish already.
ClearNext ==
    \/ FinishNext
    \/ Clear

ClearSpec == SubprocInit /\ [][ClearNext]_vars

(***************************************************************************)
(* StatusTable (status_table.cc, status_table.h).                          *)
(*                                                                         *)
(* pending_commands_ is the set of its entries, each a record of the       *)
(* command pointer and of the CommandValue it maps to.  The output methods *)
(* are virtual; log_ holds the calls made on them by the last call on the  *)
(* table, as TestStatusTable logs them.  All times are in milliseconds     *)
(* from an epoch before the build, so none is negative.                    *)
(***************************************************************************)
MaxTableCommands == 2       \* command pointers in use, CommandStarted calls per build

TableCommands == 1..MaxTableCommands

\* The description the builder gives the command.
DescriptionOf(command) == "cmd" \o FormatUnsigned(command)

\* One output call.
PrintOnNextLine(line) == [op |-> "PrintOnNextLine", line |-> line, count |-> 0]
PrintOnCurrentLine(line) == [op |-> "PrintOnCurrentLine", line |-> line, count |-> 0]
ClearNextLine == [op |-> "ClearNextLine", line |-> "", count |-> 0]
MoveUp(lines_count) == [op |-> "MoveUp", line |-> "", count |-> lines_count]
Flush == [op |-> "Flush", line |-> "", count |-> 0]

\* n calls of ClearNextLine.
ClearNextLines(n) == [i \in 1..n |-> ClearNextLine]

\* The rows holding a table line after the output calls of log on a terminal
\* where rows held one: PrintOnNextLine and ClearNextLine both go down one
\* row, the first writes it and the second erases it, MoveUp goes back up.
RECURSIVE RowsAfter(_, _, _)
RowsAfter(rows, row, log) ==
    IF log = <<>> THEN rows
    ELSE LET o == Head(log) IN
         IF o.op = "PrintOnNextLine" THEN RowsAfter(rows \cup {row + 1}, row + 1, Tail(log))
         ELSE IF o.op = "ClearNextLine" THEN RowsAfter(rows \ {row + 1}, row + 1, Tail(log))
         ELSE IF o.op = "MoveUp" THEN RowsAfter(rows, row - o.count, Tail(log))
         ELSE RowsAfter(rows, row, Tail(log))

\* CommandValuePtrLess, on two entries (a null pointer is kept apart as the
\* count of nulls of the queue: it is above every entry).
CommandValuePtrLess(a, b) ==
    IF a.start_time_ms # b.start_time_ms THEN a.start_time_ms < b.start_time_ms
    ELSE a.command_id < b.command_id

\* commands_max_queue_: the null pointers and the entries it holds.
EmptyQueue(max_commands) == [nulls |-> max_commands, items |-> {}]

\* MaxQueue::top() when no null is left: an entry no other is above.
Tops(items) == { t \in items : \A o \in items : ~CommandValuePtrLess(t, o) }

\* Variant of Offer that compares with the queue's order (start time, then id).
OfferByKey(queue, entry) ==
    IF queue.nulls > 0
    THEN {[nulls |-> queue.nulls - 1, items |-> queue.items \cup {entry}]}
    ELSE { IF CommandValuePtrLess(entry, top)
           THEN [queue EXCEPT !.items = (@ \ {top}) \cup {entry}]
           ELSE queue : top \in Tops(queue.items) }

\* One turn of the loop over pending_commands_: the entry replaces the top
\* when the top is null or started after it.  The set of the queues that
\* can result (one for each entry top() may return).
Offer(queue, entry) ==
    IF queue.nulls > 0
    THEN {[nulls |-> queue.nulls - 1, items |-> queue.items \cup {entry}]}
    ELSE { IF entry.start_time_ms < top.start_time_ms
           THEN [queue EXCEPT !.items = (@ \ {top}) \cup {entry}]
           ELSE queue : top \in Tops(queue.items) }

\* The loop over pending_commands_, visited in the given order.
RECURSIVE FillQueue(_, _)
FillQueue(queues, order) ==
    IF order = <<>> THEN queues
    ELSE FillQueue(UNION { Offer(queue, Head(order)) : queue \in queues }, Tail(order))

\* The orders in which an unordered_map may be iterated.
IterationOrders(entries) ==
    { order \in [1..Cardinality(entries) -> entries] :
        \A i, j \in 1..Cardinality(entries) : i # j => order[i] # order[j] }

\* Emptying the queue top first gives older_commands_, which is printed in
\* reverse: the orders in which the kept entries can be printed.
PrintOrders(items) ==
    { order \in IterationOrders(items) :
        \A i, j \in 1..Cardinality(items) :
            i < j => ~CommandValuePtrLess(order[j], order[i]) }

\* The sequences of entries PrintPending may print.
OlderCommands(pending, max_commands) ==
    UNION { PrintOrders(queue.items) :
            queue \in UNION { FillQueue({EmptyQueue(max_commands)}, order) :
                              order \in IterationOrders(pending) } }

\* Variant of FormatElapsed that starts the minutes one millisecond late.
FormatElapsedLate(elapsed_ms) ==
    IF elapsed_ms < 0 THEN "??????"
    ELSE IF elapsed_ms <= 60000
    THEN FormatDecimal(elapsed_ms \div 1000) \o "." \o FormatDecimal((elapsed_ms % 1000) \div 100) \o "s"
    ELSE FormatDecimal(elapsed_ms \div 60000) \o "m" \o FormatDecimal((elapsed_ms % 60000) \div 1000) \o "s"

\* The elapsed time as written in elapsed_buffer.
FormatElapsed(elapsed_ms) ==
    IF elapsed_ms < 0 THEN "??????"
    ELSE IF elapsed_ms < 60000
    THEN FormatDecimal(elapsed_ms \div 1000) \o "." \o FormatDecimal((elapsed_ms % 1000) \div 100) \o "s"
    ELSE FormatDecimal(elapsed_ms \div 60000) \o "m" \o FormatDecimal((elapsed_ms % 60000) \div 1000) \o "s"

\* std::string(n, ' ').
RECURSIVE Blanks(_)
Blanks(n) == IF n <= 0 THEN "" ELSE " " \o Blanks(n - 1)

\* Variant of PendingLine that cuts the elapsed time at the field's width.
PendingLineCut(entry, build_time_ms) ==
    LET elapsed == FormatElapsed(build_time_ms - entry.start_time_ms)
    IN (IF Len(elapsed) < 6 THEN Blanks(6 - Len(elapsed)) \o elapsed ELSE SubSeq(elapsed, 1, 6))
       \o " | " \o entry.description

\* pending_line for one entry: the elapsed time right-justified in
\* justification_width columns, " | " and the description.
PendingLine(entry, build_time_ms) ==
    LET elapsed == FormatElapsed(build_time_ms - entry.start_time_ms)
        justification_width == 6
    IN (IF Len(elapsed) < justification_width
        THEN Blanks(justification_width - Len(elapsed)) ELSE "")
       \o elapsed \o " | " \o entry.description

\* Variant of PrintPendingOutput that leaves the previous lines standing.
PrintPendingOutputUncleared(older_commands, build_time_ms, last_count, status) ==
    LET next_height == Len(older_commands)
        count == IF last_count > next_height THEN last_count ELSE next_height
    IN [i \in 1..next_height |-> PrintOnNextLine(PendingLine(older_commands[i], build_time_ms))]
       \o (IF count > 0 THEN <<MoveUp(count), PrintOnCurrentLine(status)>> ELSE <<>>)
       \o <<Flush>>

\* Variant of PrintPendingOutput that moves up by the lines printed.
PrintPendingOutputShown(older_commands, build_time_ms, last_count, status) ==
    LET count == Len(older_commands)
    IN [i \in 1..count |-> PrintOnNextLine(PendingLine(older_commands[i], build_time_ms))]
       \o ClearNextLines(IF last_count > count THEN last_count - count ELSE 0)
       \o <<MoveUp(count), PrintOnCurrentLine(status), Flush>>

\* What PrintPending prints once older_commands_ is known: the lines, the
\* clearing of the previous lines not needed anymore, the move back to the
\* status line when the cursor left it, and the flush.
PrintPendingOutput(older_commands, build_time_ms, last_count, status) ==
    LET next_height == Len(older_commands)
        count == IF last_count > next_height THEN last_count ELSE next_height
    IN [i \in 1..next_height |-> PrintOnNextLine(PendingLine(older_commands[i], build_time_ms))]
       \o ClearNextLines(count - next_height)
       \o (IF count > 0 THEN <<MoveUp(count), PrintOnCurrentLine(status)>> ELSE <<>>)
       \o <<Flush>>

\* Variant of Throttled that only refuses to go back in time.
ThrottledBackwards(last_update_time_ms, build_time_ms, refresh_timeout_ms) ==
    last_update_time_ms >= 0 /\ build_time_ms < last_update_time_ms

\* The early return of UpdateTable.
Throttled(last_update_time_ms, build_time_ms, refresh_timeout_ms) ==
    /\ last_update_time_ms >= 0
    /\ build_time_ms - last_update_time_ms < refresh_timeout_ms

\* Variant of Disabled for a table that always prints.
NeverDisabled(max_commands) == FALSE

\* The early return of PrintPending.
Disabled(max_commands) == max_commands = 0

\* StatusTable::SetStatus.
SetStatus(status) ==
    /\ last_status_' = status
    /\ log_' = <<>>
    /\ call' = NoTableCall
    /\ UNCHANGED <<config_, last_command_count_, last_command_id_, last_update_time_ms_,
                   pending_commands_, shown_at, table_lines>>
    /\ UNCHANGED OutsideTable

\* StatusTable::BuildStarted.
BuildStarted ==
    /\ last_update_time_ms_' = 0 - 1
    /\ last_command_id_' = 0
    /\ log_' = <<>>
    /\ call' = NoTableCall
    /\ shown_at' = 0 - 1
    /\ UNCHANGED <<config_, last_command_count_, last_status_, pending_commands_, table_lines>>
    /\ UNCHANGED OutsideTable

\* Variant of ClearTableOutput that prints the status again.
ClearTableOutputStatus(last_count, status) ==
    IF last_count = 0 THEN <<>>
    ELSE ClearNextLines(last_count) \o <<MoveUp(last_count), PrintOnCurrentLine(status), Flush>>

\* What ClearTable prints.
ClearTableOutput(last_count, status) ==
    IF last_count = 0 THEN <<>>
    ELSE ClearNextLines(last_count) \o <<MoveUp(last_count), Flush>>

\* StatusTable::ClearTable.
ClearTable ==
    /\ log_' = ClearTableOutput(last_command_count_, last_status_)
    /\ last_command_count_' = 0
    /\ call' = [NoTableCall EXCEPT !.op = "ClearTable", !.before = last_command_count_]
    /\ table_lines' = RowsAfter(table_lines, 0, log_')
    /\ UNCHANGED <<config_, last_command_id_, last_update_time_ms_, last_status_,
                   pending_commands_, shown_at>>
    /\ UNCHANGED OutsideTable

\* StatusTable::BuildEnded, with the ClearTable it ends with.
BuildEnded ==
    /\ last_update_time_ms_' = 0 - 1
    /\ log_' = ClearTableOutput(last_command_count_, last_status_)
    /\ last_command_count_' = 0
    /\ call' = [NoTableCall EXCEPT !.op = "BuildEnded", !.before = last_command_count_]
    /\ shown_at' = 0 - 1
    /\ table_lines' = RowsAfter(table_lines, 0, log_')
    /\ UNCHANGED <<config_, last_command_id_, last_status_, pending_commands_>>
    /\ UNCHANGED OutsideTable

\* StatusTable::CommandStarted: emplace leaves the entry of a command that
\* is already pending as it is.
CommandStarted(command, start_time_ms, description) ==
    /\ last_command_id_ < MaxTableCommands
    /\ last_command_id_' = last_command_id_ + 1
    /\ pending_commands_' =
           IF \E entry \in pending_commands_ : entry.command = command
           THEN pending_commands_
           ELSE pending_commands_ \cup
                {[command |-> command, start_time_ms |-> start_time_ms,
                  command_id |-> last_command_id_', description |-> description]}
    /\ log_' = <<>>
    /\ call' = NoTableCall
    /\ UNCHANGED <<config_, last_command_count_, last_update_time_ms_, last_status_,
                   shown_at, table_lines>>
    /\ UNCHANGED OutsideTable

\* StatusTable::CommandEnded: the command is pending (the assert).
CommandEnded(command) ==
    /\ \E entry \in pending_commands_ : entry.command = command
    /\ pending_commands_' = { entry \in pending_commands_ : entry.command # command }
    /\ log_' = <<>>
    /\ call' = NoTableCall
    /\ UNCHANGED <<config_, last_command_count_, last_command_id_, last_update_time_ms_,
                   last_status_, shown_at, table_lines>>
    /\ UNCHANGED OutsideTable

\* StatusTable::UpdateTable, with the PrintPending it ends with.
UpdateTable(build_time_ms) ==
    /\ IF Throttled(last_update_time_ms_, build_time_ms, config_.refresh_timeout_ms)
       THEN /\ log_' = <<>>
            /\ call' = [NoTableCall EXCEPT !.op = "UpdateTable", !.time = build_time_ms,
                                           !.throttled = TRUE,
                                           !.before = last_command_count_]
            /\ UNCHANGED <<last_update_time_ms_, last_command_count_, shown_at, table_lines>>
       ELSE /\ last_update_time_ms_' = build_time_ms
            /\ shown_at' = build_time_ms
            /\ IF Disabled(config_.max_commands)
               THEN /\ log_' = <<>>
                    /\ call' = [NoTableCall EXCEPT !.op = "UpdateTable",
                                                   !.time = build_time_ms,
                                                   !.before = last_command_count_]
                    /\ UNCHANGED <<last_command_count_, table_lines>>
               ELSE \E older_commands \in OlderCommands(pending_commands_, config_.max_commands) :
                    /\ log_' = PrintPendingOutput(older_commands, build_time_ms,
                                                  last_command_count_, last_status_)
                    /\ last_command_count_' = Len(older_commands)
                    /\ call' = [NoTableCall EXCEPT !.op = "UpdateTable",
                                                   !.time = build_time_ms,
                                                   !.before = last_command_count_,
                                                   !.shown = older_commands]
                    /\ table_lines' = RowsAfter(table_lines, 0, log_')
    /\ UNCHANGED <<config_, last_command_id_, last_status_, pending_commands_>>
    /\ UNCHANGED OutsideTable

(***************************************************************************)
(* The table under every call: a disabled table, a table of one line and   *)
(* one of MaxTableCommands lines, with a refresh timeout of 100 ms;        *)
(* commands that start at the same time and at different times; updates    *)
(* within the refresh timeout of the last one, and at it.                  *)
(***************************************************************************)
TableConfigs == [max_commands : {0, 1, MaxTableCommands}, refresh_timeout_ms : {100}]
StartTimes == {0, 50}
UpdateTimes == {0, 100}
Statuses == {"[1/2]"}

TableInit ==
    /\ \E config \in TableConfigs : NewTable(config)
    /\ JobserverUnused
    /\ ParserUnused
    /\ SubprocessUnused
    /\ PathUnused
    /\ PrinterUnused

TableNext ==
    \/ \E status \in Statuses : SetStatus(status)
    \/ BuildStarted
    \/ BuildEnded
    \/ \E command \in TableCommands, start_time_ms \in StartTimes :
           CommandStarted(command, start_time_ms, DescriptionOf(command))
    \/ \E command \in TableCommands : CommandEnded(command)
    \/ \E build_time_ms \in UpdateTimes : UpdateTable(build_time_ms)
    \/ ClearTable

TableSpec == TableInit /\ [][TableNext]_vars

(***************************************************************************)
(* A table of one line that is never cut short, with one command started   *)
(* at either of two epochs and updated before its start and from 0 ms to   *)
(* a thousand minutes after it, over several builds.                       *)
(***************************************************************************)
ElapsedConfig == [max_commands |-> 1, refresh_timeout_ms |-> 0]
EpochStarts == {0, 1000}
ElapsedTimes == {0, 99, 100, 999, 1000, 59999, 60000, 61000,
                 5999999, 6000000, 60000000, 60001000}

ElapsedInit ==
    /\ NewTable(ElapsedConfig)
    /\ JobserverUnused
    /\ ParserUnused
    /\ SubprocessUnused
    /\ PathUnused
    /\ PrinterUnused

ElapsedNext ==
    \/ BuildStarted
    \/ BuildEnded
    \/ \E start_time_ms \in EpochStarts : CommandStarted(1, start_time_ms, DescriptionOf(1))
    \/ CommandEnded(1)
    \/ \E build_time_ms \in ElapsedTimes : UpdateTable(build_time_ms)

ElapsedSpec == ElapsedInit /\ [][ElapsedNext]_vars

(***************************************************************************)
(* The claims about the client (checked under Spec).                       *)
(***************************************************************************)
\* The explicit token bytes among a sequence of slots, in order.
RECURSIVE ExplicitBytes(_)
ExplicitBytes(slots) ==
    IF Len(slots) = 0 THEN ""
    ELSE (IF IsExplicit(Head(slots)) THEN Head(slots).value ELSE "")
         \o ExplicitBytes(Tail(slots))

\* The token bytes carried by the outstanding explicit slots of all clients.
RECURSIVE OutstandingBytes(_)
OutstandingBytes(cs) ==
    IF cs = {} THEN ""
    ELSE LET c == CHOOSE x \in cs : TRUE
         IN  ExplicitBytes(held[c]) \o OutstandingBytes(cs \ {c})

Occurrences(s, ch) == Cardinality({i \in 1..Len(s) : CharAt(s, i) = ch})

\* Two texts hold the same bytes, each as often.
SameBytes(a, b) ==
    /\ Len(a) = Len(b)
    /\ \A i \in 1..Len(a) : Occurrences(a, CharAt(a, i)) = Occurrences(b, CharAt(a, i))

HoldsExplicit(c) == ExplicitBytes(held[c]) # ""

\* C1: for every client the number of Implicit slots outstanding is 0 or 1,
\* and the assertion of Release ("Implicit slot cannot be released twice")
\* has never fired, each slot being released at most once.
C1_ImplicitSlotUnique ==
    /\ ~assert_failed
    /\ \A c \in Clients : CountImplicit(held[c]) \in {0, 1}

\* C1 witness: a client got its implicit slot again after a release.
C1_Witness ==
    /\ last.op = "TryAcquire" /\ IsImplicit(last.slot)
    /\ released
    /\ CountImplicit(held[last.client]) = 1
    /\ Len(held[last.client]) > 1

\* C2: as long as every write of Release succeeded, the bytes in the pool
\* together with the bytes of the outstanding Explicit slots of all clients
\* are the pool's initial bytes, each as often; so no token is in two
\* slots, and with no Explicit slot outstanding the pool holds what it
\* started with.
C2_TokensConserved ==
    lost = "" => SameBytes(pipe \o OutstandingBytes(Clients), pipe0)

\* C2 witness: a token that was released has been acquired again, and two
\* clients hold an explicit slot each.
C2_Witness ==
    /\ released /\ lost = ""
    /\ last.op = "TryAcquire" /\ IsExplicit(last.slot)
    /\ \E c, d \in Clients : c # d /\ HoldsExplicit(c) /\ HoldsExplicit(d)

\* C3: on a client whose caller released nothing, no other client having
\* read the pool, the first TryAcquire gives the Implicit slot and leaves
\* the pool as it was, the next ones give Explicit slots with the pool's
\* bytes in the order they were written, and with the pool empty
\* TryAcquire gives Invalid.  (With no release, the slots the caller holds
\* before the call are the valid results of its earlier calls.)
C3_AcquireOrder ==
    (/\ last.op = "TryAcquire"
     /\ ~released
     /\ \A d \in Clients \ {last.client} : ~HoldsExplicit(d))
    => /\ last.held_before = 0 => (IsImplicit(last.slot) /\ pipe = pipe0)
       /\ (last.held_before >= 1 /\ last.held_before <= Len(pipe0))
             => last.slot = CreateExplicit(CharAt(pipe0, last.held_before))
       /\ last.held_before > Len(pipe0) => ~IsValid(last.slot)

\* C3 witness: the client drained a pool of at least two bytes and then got
\* Invalid.
C3_Witness ==
    /\ last.op = "TryAcquire" /\ ~released
    /\ \A d \in Clients \ {last.client} : ~HoldsExplicit(d)
    /\ Len(pipe0) >= 2
    /\ last.held_before = Len(pipe0) + 1
    /\ ~IsValid(last.slot)

\* C4: TryAcquire gives Invalid only while the client's implicit slot is
\* outstanding; a client whose caller holds no slot gets the Implicit slot,
\* whatever the pool holds.
C4_InvalidOnlyWhileImplicitOut ==
    last.op = "TryAcquire"
    => /\ ~IsValid(last.slot) => last.implicit_before = 1
       /\ last.held_before = 0 => IsImplicit(last.slot)

\* C4 witness: with the pool empty (its tokens are with another client), a
\* client that gave back its slot gets the Implicit slot again.
C4_Witness ==
    /\ last.op = "TryAcquire" /\ last.held_before = 0 /\ IsImplicit(last.slot)
    /\ released
    /\ pipe = "" /\ pipe0 # "" /\ lost = ""

(***************************************************************************)
(* The claims about the pool (checked under PoolSpec).                     *)
(***************************************************************************)
RECURSIVE Tokens(_)
Tokens(n) == IF n <= 0 THEN "" ELSE "+" \o Tokens(n - 1)

HasPrefix(s, prefix) == GetPrefixedValue(s, prefix).ok

\* The decimal numerals, written out.
Numerals == <<"1", "2", "3", "4", "5", "6", "7", "8", "9", "10", "11", "12", "13", "14">>

\* A pool made in FIFO mode is the one whose mknod made the node.
FifoMode == node_created

\* C5: when Pool::Create(N, mode) succeeds the pipe/FIFO holds exactly N-1
\* bytes '+', however the token writes were interrupted.
C5_PoolHoldsAllTokens ==
    (last.op = "PoolCreate" /\ last.ok) => pipe = Tokens(last.slots - 1)

\* C6: the env string of a pool of size N parses, a client is created from
\* the parsed Config, and its successive TryAcquire calls give the Implicit
\* slot, then N-1 Explicit slots, then Invalid.
C6_RoundTrip ==
    pool.alive
    => /\ ParseMakeFlagsValue(GetEnvMakeFlagsValue(pool)).ok
       /\ (last.op = "ClientCreate" /\ last.from_env /\ last.fail = "none") => last.ok
       /\ (last.op = "TryAcquire" /\ ~released)
          => /\ last.held_before = 0 => IsImplicit(last.slot)
             /\ (last.held_before >= 1 /\ last.held_before <= pool.job_count_ - 1)
                   => IsExplicit(last.slot)
             /\ last.held_before >= pool.job_count_ => ~IsValid(last.slot)

\* C7: Pool::Create with N < 2 fails with 'At least 2 job slots needed' and
\* makes no pool, no pipe, no FIFO node and writes no token.
C7_TooFewSlotsRejected ==
    (last.op = "PoolCreate" /\ last.slots < 2)
    => /\ ~last.ok /\ ~pool.alive
       /\ last.error = "At least 2 job slots needed"
       /\ fds \in OpenFiles
       /\ NodeKind(fs, FifoPath(environ)) = last.node_before
       /\ ~node_created
       /\ pipe = ""

\* C7 witness: a FIFO pool of one slot was asked for.
C7_Witness == last.op = "PoolCreate" /\ last.slots = 1 /\ last.mode = kModePosixFifo

C10_NodeRemovedOnlyIfCreated ==
    /\ (pool.alive /\ pool.fifo_ # "") => NodeKind(fs, pool.fifo_) = "fifo"
    /\ (last.op = "PoolDestroy" /\ node_created)
          => NodeKind(fs, FifoPath(environ)) = "absent"
    /\ (last.op = "PoolCreate" /\ ~last.ok /\ last.node_before # "absent")
          => NodeKind(fs, FifoPath(environ)) = last.node_before
(***************************************************************************)
(* The claims about the MAKEFLAGS parser (checked under ParseSpec).        *)
(***************************************************************************)
AuthPrefix == "--jobserver-auth="

FdsPrefix == "--jobserver-fds="

\* A word the parser knows.
Recognized(w) == HasPrefix(w, AuthPrefix) \/ HasPrefix(w, FdsPrefix)

\* What follows the '=' of a recognized word.
OptionValue(w) ==
    IF HasPrefix(w, AuthPrefix) THEN DropFirst(w, Len(AuthPrefix))
    ELSE DropFirst(w, Len(FdsPrefix))

\* The place of the last recognized word, 0 when there is none.
LastRecognized(ws) ==
    IF \E i \in 1..Len(ws) : Recognized(ws[i])
    THEN CHOOSE i \in 1..Len(ws) :
             Recognized(ws[i]) /\ \A j \in (i + 1)..Len(ws) : ~Recognized(ws[j])
    ELSE 0

\* The first word has no leading '-' and holds an 'n'.
IsDryRun(ws) ==
    Len(ws) > 0 /\ CharAt(ws[1], 1) # "-" /\ \E i \in 1..Len(ws[1]) : CharAt(ws[1], i) = "n"

\* A decimal integer with an optional '-'.
IsSignedNumber(t) ==
    LET d == IF Len(t) > 0 /\ CharAt(t, 1) = "-" THEN DropFirst(t, 1) ELSE t
    IN  Len(d) > 0 /\ \A i \in 1..Len(d) : IsDigit(CharAt(d, i))

\* The value begins with a descriptor pair: an integer, a comma, an integer
\* (the parser does not look at what follows the second integer).
StartsWithPair(v) ==
    \E i \in 2..Len(v) : \E j \in (i + 1)..Len(v) :
        /\ CharAt(v, i) = ","
        /\ IsSignedNumber(SubSeq(v, 1, i - 1))
        /\ IsSignedNumber(SubSeq(v, i + 1, j))

\* ... and one of the two integers is negative.
NegativePair(v) ==
    /\ StartsWithPair(v)
    /\ \/ CharAt(v, 1) = "-"
       \/ \E i \in 2..Len(v) : CharAt(v, i) = "," /\ CharAt(v, i + 1) = "-"

\* A --jobserver-fds= word whose value is no descriptor pair.
BadFdsWord(w) == HasPrefix(w, FdsPrefix) /\ ~StartsWithPair(OptionValue(w))

\* The mode of a Config with the endpoint that belongs to it.
ModeAndEndpoint(config) ==
    IF config.mode = kModeFileDescriptors
    THEN <<config.mode, config.read_fd, config.write_fd>>
    ELSE IF config.mode \in {kModePosixFifo, kModeWin32Semaphore}
    THEN <<config.mode, config.path>>
    ELSE <<config.mode>>

Parsed == parse.call = "ParseMakeFlagsValue"

\* C11: for a text that is no dry-run and parses, the mode and its
\* descriptor pair or path are those the parser gives for the last
\* recognized word alone, whatever words stand before, between and after;
\* a text with no recognized word (the empty and the blank ones too) parses
\* to Mode=None.
C11_LastRecognizedWins ==
    /\ (Parsed /\ ~IsDryRun(words) /\ parse.ok /\ LastRecognized(words) > 0)
       => ModeAndEndpoint(parse.config)
             = ModeAndEndpoint(ParseMakeFlagsValue(words[LastRecognized(words)]).config)
    /\ (Parsed /\ LastRecognized(words) = 0)
       => (parse.ok /\ parse.config.mode = kModeNone)

\* C11 witness: the second of two recognized words replaced what the first
\* one had set.
C11_Witness ==
    /\ Parsed /\ parse.ok /\ Len(words) = 2
    /\ Recognized(words[1]) /\ Recognized(words[2])
    /\ ParseMakeFlagsValue(words[1]).config.mode = kModeFileDescriptors
    /\ parse.config.mode = kModePosixFifo /\ parse.config.path = "/f"

\* C12: a first word without a leading '-' that holds an 'n' makes the
\* parser succeed with Mode=None whatever follows; a first word with a
\* leading '-' does not, 'n' or not: the text fails on a bad
\* --jobserver-fds= word and takes its mode from the last recognized word.
C12_DryRunGate ==
    /\ (Parsed /\ IsDryRun(words)) => (parse.ok /\ parse.config = DefaultConfig)
    /\ (Parsed /\ Len(words) > 0 /\ CharAt(words[1], 1) = "-")
       => /\ (\E i \in 1..Len(words) : BadFdsWord(words[i])) => ~parse.ok
          /\ (parse.ok /\ LastRecognized(words) > 0)
             => ModeAndEndpoint(parse.config)
                   = ModeAndEndpoint(ParseMakeFlagsValue(words[LastRecognized(words)]).config)

\* C12 witness: the flag letters "kns" stand before an option, and the
\* text "-nk" before one that sets a mode.
C12_Witness ==
    \/ Parsed /\ Len(words) = 2 /\ words[1] = "kns" /\ BadFdsWord(words[2]) /\ parse.ok
    \/ Parsed /\ Len(words) = 2 /\ words[1] = "-nk" /\ parse.config.mode = kModePosixFifo

\* C13: when the last recognized word carries a descriptor pair with a
\* negative descriptor, the mode is None, for --jobserver-auth= and
\* --jobserver-fds= alike.
C13_NegativePairDisables ==
    (/\ Parsed /\ ~IsDryRun(words) /\ parse.ok
     /\ LastRecognized(words) > 0
     /\ NegativePair(OptionValue(words[LastRecognized(words)])))
    => parse.config.mode = kModeNone

ParsedNative(platform) ==
    parse.call = "ParseNativeMakeFlagsValue" /\ parse.platform = platform

\* C15: the native parse fails exactly when the parse fails or the mode is
\* one the platform does not serve: Win32Semaphore off Windows, Fifo and
\* FileDescriptors on Windows; a native parse that succeeds off Windows has
\* mode None, FileDescriptors or Fifo.
C15_NativeModes ==
    LET r == ParseMakeFlagsValue(makeflags_env)
    IN  /\ ParsedNative("posix")
           => /\ ~parse.ok <=> (~r.ok \/ r.config.mode = kModeWin32Semaphore)
              /\ parse.ok
                 => parse.config.mode \in {kModeNone, kModeFileDescriptors, kModePosixFifo}
        /\ ParsedNative("win32")
           => /\ ~parse.ok
                 <=> (~r.ok \/ r.config.mode \in {kModePosixFifo, kModeFileDescriptors})
              /\ parse.ok => parse.config.mode \in {kModeNone, kModeWin32Semaphore}

\* C15 witness: a semaphore name is turned down off Windows.
C15_Witness ==
    /\ ParsedNative("posix") /\ ~parse.ok
    /\ ParseMakeFlagsValue(makeflags_env).ok
    /\ parse.error = "Semaphore mode is only available on Windows!"
(***************************************************************************)
(* The claim about Client::Create (checked under CreateSpec).              *)
(***************************************************************************)
Created == last.op = "ClientCreate"

\* C16: Client::Create gives a client only for the modes FileDescriptors
\* and Fifo and only with endpoints that are FIFOs; Mode=None and
\* Win32Semaphore give 'Unsupported jobserver mode', an empty FIFO path
\* 'Empty fifo path', a path that is opened and is no FIFO
\* 'Not a fifo path: <path>', descriptors that are no FIFOs
\* 'Invalid file descriptors'; every failure leaves no client and an error
\* text that is not empty.
C16_CreateValidates ==
    Created
    => LET config == last.config
       IN  /\ last.ok
              => \/ /\ config.mode = kModeFileDescriptors
                    /\ IsFifoDescriptor(fds, config.read_fd)
                    /\ IsFifoDescriptor(fds, config.write_fd)
                 \/ /\ config.mode = kModePosixFifo
                    /\ config.path # ""
                    /\ NodeKind(fs, config.path) = "fifo"
           /\ config.mode \in {kModeNone, kModeWin32Semaphore}
              => (~last.ok /\ last.error = "Unsupported jobserver mode")
           /\ (config.mode = kModePosixFifo /\ config.path = "")
              => (~last.ok /\ last.error = "Empty fifo path")
           /\ (/\ config.mode = kModePosixFifo
               /\ NodeKind(fs, config.path) = "file"
               /\ last.fail # "read")
              => (~last.ok /\ last.error = "Not a fifo path: " \o config.path)
           /\ (/\ config.mode = kModeFileDescriptors
               /\ ~(IsFifoDescriptor(fds, config.read_fd)
                    /\ IsFifoDescriptor(fds, config.write_fd)))
              => (~last.ok /\ last.error = "Invalid file descriptors")
           /\ ~last.ok => (~clients[last.client].alive /\ last.error # "")
           /\ last.ok <=> clients[last.client].alive

\* C16 witness: the path of a regular file was passed as the FIFO; the
\* descriptor opened on it is closed again.
C16_Witness ==
    /\ Created /\ ~last.ok
    /\ last.config.path = RegularFile
    /\ last.error = "Not a fifo path: /not_a_fifo"
    /\ DOMAIN fds = DOMAIN InheritedFds
(***************************************************************************)
(* The claims about the subprocess set (checked under SubprocSpec).        *)
(***************************************************************************)
\* How often x stands in a sequence.
CountIn(seq, x) == Cardinality({i \in 1..Len(seq) : seq[i] = x})

BothStreamsClosed(sub) == ~sub.stdout_pipe_.pipe_ /\ ~sub.stderr_pipe_.pipe_

\* The subprocesses pushed on finished_, in order.
EnteredOrder == [i \in 1..Len(entered) |-> entered[i].subproc]

\* C17: every subprocess NextFinished has returned has both its output
\* streams closed, whether DoWork or Add put it on the finished queue.
C17_FinishedAreDone ==
    /\ \A i \in 1..Len(handed) : BothStreamsClosed(subs[handed[i]])
    /\ (work.op = "NextFinished" /\ work.subproc # 0)
       => BothStreamsClosed(subs[work.subproc])

\* C17 witness: NextFinished has returned a subprocess that DoWork moved
\* and one that Add put on the queue.
C17_Witness ==
    /\ work.op = "NextFinished" /\ work.subproc # 0
    /\ \E i, j \in 1..Len(entered) :
          /\ entered[i].by = "DoWork" /\ InSeq(handed, entered[i].subproc)
          /\ entered[j].by = "Add" /\ InSeq(handed, entered[j].subproc)

\* C18: at every point the combined output of a subprocess is the bytes
\* delivered on its two streams, in the order they arrived, so that its
\* length is that of stdout plus that of stderr.
C18_CombinedIsArrival ==
    \A key \in DOMAIN subs :
        ~subs[key].deleted
        => /\ subs[key].combined_output_ = arrival[key]
           /\ Len(subs[key].combined_output_)
                 = Len(GetStdout(subs[key])) + Len(GetStderr(subs[key]))

\* C19: a subprocess that was added and neither handed out by NextFinished
\* nor destroyed by Clear is once in running_ or once in finished_, and not
\* in both; one that was handed out or destroyed is in neither.
C19_OneContainer ==
    \A key \in DOMAIN subs :
        IF ~InSeq(handed, key) /\ ~subs[key].deleted
        THEN CountIn(running_, key) + CountIn(finished_, key) = 1
        ELSE CountIn(running_, key) + CountIn(finished_, key) = 0

\* C19 witness: DoWork has moved one subprocess to finished_ while another
\* is running.
C19_Witness ==
    /\ work.op = "DoWork"
    /\ Len(running_) = 1 /\ Len(finished_) = 1
    /\ \E i \in 1..Len(entered) :
          entered[i].by = "DoWork" /\ entered[i].subproc = work.subproc

\* C20: NextFinished returns the subprocesses in the order they were pushed
\* on the finished queue, whatever the order of the Adds, and returns null
\* only when the queue is empty.
C20_FinishedFifo ==
    /\ Len(handed) <= Len(entered)
    /\ handed = SubSeq(EnteredOrder, 1, Len(handed))
    /\ finished_ = SubSeq(EnteredOrder, Len(handed) + 1, Len(entered))
    /\ work.op = "NextFinished"
       => IF work.subproc = 0 THEN finished_ = <<>>
          ELSE handed # <<>> /\ handed[Len(handed)] = work.subproc

\* C20 witness: the subprocess added second became Done first and was
\* returned first.
C20_Witness ==
    /\ work.op = "NextFinished"
    /\ handed = <<2, 1>>
    /\ \A i \in 1..Len(entered) : entered[i].by = "DoWork"
(***************************************************************************)
(* The claims about DoWork and Finish (checked under SubprocLiveSpec,      *)
(* InterruptSpec and FinishSpec).                                          *)
(***************************************************************************)
\* Subprocess `key` is in running_ and its child has ended.
TerminatedInRunning(key) ==
    /\ key \in DOMAIN subs
    /\ InSeq(running_, key)
    /\ children[key].state = "exited"

\* Subprocess `key` was pushed on finished_, or the run was cut short: the
\* process ended in a fatal error, or Clear destroyed the subprocess.
FinishedOrCutShort(key) ==
    /\ key \in DOMAIN subs
    /\ \/ InSeq(EnteredOrder, key)
       \/ subs[key].deleted
       \/ fatal # ""

\* What C21 says, of the subprocesses that have pipes: it holds of them.
PipedEventuallyFinished ==
    \A key \in 1..MaxProcs :
        (TerminatedInRunning(key) /\ ~subs[key].use_console_) ~> FinishedOrCutShort(key)

\* C21: a subprocess in running_ whose child has ended, console or not, is
\* eventually moved to the finished queue by the DoWork calls of a caller
\* that goes on calling DoWork.
C21_TerminatedEventuallyFinished ==
    \A key \in 1..MaxProcs : TerminatedInRunning(key) ~> FinishedOrCutShort(key)
\* C22: DoWork returns true exactly when the packet that woke it is the one
\* NotifyInterrupted posts, and a call that returns true leaves running_,
\* finished_ and every subprocess (its buffers, its pipes) as they were.
C22_TrueOnInterruptOnly ==
    [][DoWork => /\ work'.ret = (Head(ioport) = InterruptPacket)
                 /\ work'.ret => UNCHANGED <<running_, finished_, subs>>]_vars

\* C22 witness: DoWork has returned true while a subprocess was running and
\* packets of its pipes waited on the port.
C22_Witness ==
    /\ work.op = "DoWork" /\ work.ret
    /\ running_ # <<>>
    /\ \E i \in 1..Len(ioport) : ioport[i].key # 0
\* C23: a subprocess whose program was not found leaves the set running: Add
\* puts it on the finished queue and never in running_, it is Done, its
\* stderr buffer starts with "CreateProcess failed:", and Finish on it does
\* not wait and returns ExitFailure.
C23_NotFoundIsFinished ==
    \A key \in DOMAIN subs :
        children[key].state = "none"
        => /\ ~InSeq(running_, key)
           /\ \E i \in 1..Len(entered) : entered[i] = [subproc |-> key, by |-> "Add"]
           /\ BothStreamsClosed(subs[key])
           /\ HasPrefix(GetStderr(subs[key]), "CreateProcess failed:")
           /\ ~FinishWaits(key)
           /\ (work.op = "Finish" /\ work.subproc = key) => work.status = ExitFailure
           /\ (work.op = "Add" /\ work.subproc = key) => (work.ret /\ fatal = "")

\* C23 witness: Finish was called on a subprocess whose program was not
\* found, after NextFinished had returned it.
C23_Witness ==
    /\ work.op = "Finish"
    /\ children[work.subproc].state = "none"
    /\ InSeq(handed, work.subproc)

\* C24: Finish on a subprocess with a child returns, once the child has
\* ended, ExitSuccess for exit code 0, ExitInterrupted exactly for exit code
\* CONTROL_C_EXIT, and else the exit code; it leaves the subprocess without
\* child, and on a subprocess without child it returns ExitFailure.
C24_FinishMapsExit ==
    work.op = "Finish"
    => LET key  == work.subproc
           code == children[key].exit_code
       IN  IF work.ret
           THEN /\ children[key].state = "exited"
                /\ ~subs[key].child_
                /\ code = 0 => work.status = ExitSuccess
                /\ (work.status = ExitInterrupted) <=> (code = CONTROL_C_EXIT)
                /\ code \notin {0, CONTROL_C_EXIT} => work.status = code
           ELSE work.status = ExitFailure

(***************************************************************************)
(* The claims about the status table (checked under TableSpec).            *)
(***************************************************************************)
\* C25: within one build, an UpdateTable(now) that comes less than
\* refresh_timeout_ms after the last update that was not cut short prints
\* nothing and leaves the recorded time of the last update alone; an
\* UpdateTable with no such update before it since the table was made or
\* BuildStarted or BuildEnded was called is never cut short.  (The steps
\* of UpdateTable(now) are those that leave call.op = "UpdateTable" and
\* call.time = now.)
C25_ThrottledUpdateIsSilent ==
    [][\A now \in UpdateTimes :
          (call'.op = "UpdateTable" /\ call'.time = now) =>
          /\ (shown_at >= 0 /\ now - shown_at < config_.refresh_timeout_ms)
                 => (log_' = <<>> /\ last_update_time_ms_' = last_update_time_ms_)
          /\ shown_at < 0 => last_update_time_ms_' = now]_vars

\* An update of an enabled table with a pending command was cut short.
C25_Witness ==
    /\ call.op = "UpdateTable"
    /\ call.throttled
    /\ config_.max_commands > 0
    /\ pending_commands_ # {}
    /\ shown_at >= 0
    /\ call.time - shown_at < config_.refresh_timeout_ms
    /\ log_ = <<>>

\* The entry a comes before the entry b in the order of the key
\* (start_time_ms, insertion id).
KeyBefore(a, b) ==
    \/ a.start_time_ms < b.start_time_ms
    \/ a.start_time_ms = b.start_time_ms /\ a.command_id < b.command_id

\* An update of an enabled table that the refresh timeout did not cut short.
Rendered == call.op = "UpdateTable" /\ ~call.throttled /\ config_.max_commands > 0

\* The entries printed by the last update.
Shown == { call.shown[i] : i \in 1..Len(call.shown) }

\* C26: an update that is not cut short, of a table of K > 0 lines, prints
\* min(K, number of pending commands) commands, in increasing order of the
\* key (start_time_ms, insertion id), and no pending command left out comes
\* before a printed one in that order (a tie on the start time at the
\* cut-off goes to the lower insertion id).
C26_OldestInKeyOrder ==
    Rendered =>
        /\ Len(call.shown) = IF Cardinality(pending_commands_) < config_.max_commands
                             THEN Cardinality(pending_commands_)
                             ELSE config_.max_commands
        /\ Shown \subseteq pending_commands_
        /\ \A i, j \in 1..Len(call.shown) :
               i < j => ~KeyBefore(call.shown[j], call.shown[i])
        /\ \A entry \in pending_commands_ \ Shown :
               \A shown \in Shown : ~KeyBefore(entry, shown)

\* The PrintOnNextLine calls of the last update: one for each entry printed.
ShownLines ==
    [i \in 1..Len(call.shown) |-> PrintOnNextLine(PendingLine(call.shown[i], call.time))]

\* The lines printed by the update before that the last update did not
\* print over.
StaleLines ==
    IF call.before > Len(call.shown) THEN call.before - Len(call.shown) ELSE 0

\* C27, as stated: an update that is not cut short, of an enabled table,
\* emits one PrintOnNextLine for each selected command, one ClearNextLine
\* for each line of the previous update no longer needed, MoveUp by the
\* number of commands shown, PrintOnCurrentLine(last_status) and Flush.
C27_MoveUpByShown ==
    Rendered =>
        log_ = ShownLines \o ClearNextLines(StaleLines)
               \o <<MoveUp(Len(call.shown)), PrintOnCurrentLine(last_status_), Flush>>

\* C27, amended: the MoveUp is by the number of lines printed and cleared
\* together, and MoveUp and PrintOnCurrentLine are left out when that is 0.
C27_MoveUpPastCleared ==
    Rendered =>
        log_ = ShownLines \o ClearNextLines(StaleLines)
               \o (IF Len(call.shown) + StaleLines > 0
                   THEN <<MoveUp(Len(call.shown) + StaleLines),
                          PrintOnCurrentLine(last_status_)>>
                   ELSE <<>>)
               \o <<Flush>>

\* An update printed a line and cleared another under a status line.
C27_Witness ==
    /\ Rendered
    /\ Len(call.shown) > 0
    /\ StaleLines > 0
    /\ last_status_ # ""

\* C28: with max_commands = 0 no call on the table invokes PrintOnNextLine,
\* PrintOnCurrentLine, ClearNextLine, MoveUp or Flush.
C28_DisabledTableIsSilent ==
    config_.max_commands = 0 => log_ = <<>>

\* A disabled table with a status line and a pending command was updated,
\* and the refresh timeout did not cut the update short.
C28_Witness ==
    /\ config_.max_commands = 0
    /\ call.op = "UpdateTable"
    /\ ~call.throttled
    /\ pending_commands_ # {}
    /\ last_status_ # ""

\* C29: ClearTable emits one ClearNextLine for every table line on the
\* terminal, then MoveUp by that count and Flush, without printing the
\* status, and leaves no table line; with no table line on the terminal (as
\* after a ClearTable) it emits nothing, and an update then emits no
\* ClearNextLine.  (The steps of ClearTable are those that leave
\* call.op = "ClearTable".)
C29_ClearTableErases ==
    [][/\ call'.op = "ClearTable" =>
            LET printed == Cardinality(table_lines)
            IN /\ log_' = IF printed = 0 THEN <<>>
                          ELSE ClearNextLines(printed) \o <<MoveUp(printed), Flush>>
               /\ table_lines' = {}
               /\ last_status_' = last_status_
       /\ (call'.op = "UpdateTable" /\ table_lines = {}) =>
                \A i \in 1..Len(log_') : log_'[i].op # "ClearNextLine"]_vars

\* ClearTable erased a table of more than one line under a status line.
C29_Witness ==
    /\ call.op = "ClearTable"
    /\ call.before > 1
    /\ last_status_ # ""
    /\ Len(log_) = call.before + 2
    /\ table_lines = {}

(***************************************************************************)
(* The claim about the elapsed times (checked under ElapsedSpec).          *)
(***************************************************************************)
\* The elapsed time e in words: question marks before the start, seconds
\* and tenths in the first minute, minutes and seconds from then on.
ElapsedText(e) ==
    IF e < 0 THEN "??????"
    ELSE IF e < 60000
    THEN LET seconds == e \div 1000
             tenths == (e - seconds * 1000) \div 100
         IN FormatUnsigned(seconds) \o "." \o FormatUnsigned(tenths) \o "s"
    ELSE LET minutes == e \div 60000
             seconds == (e - minutes * 60000) \div 1000
         IN FormatUnsigned(minutes) \o "m" \o FormatUnsigned(seconds) \o "s"

\* The text is the elapsed time after as many spaces as bring it to six
\* columns, and after none when it has six columns or more.
PaddedToSix(text, elapsed) ==
    /\ Len(text) = IF Len(elapsed) < 6 THEN 6 ELSE Len(elapsed)
    /\ SubSeq(text, Len(text) - Len(elapsed) + 1, Len(text)) = elapsed
    /\ \A i \in 1..(Len(text) - Len(elapsed)) : SubSeq(text, i, i) = " "

\* C30: each line printed is '<elapsed> | <description>', the elapsed text
\* being that of e = now_ms - start_ms alone, left-padded with spaces to 6
\* columns and never cut when longer.
C30_ElapsedFormat ==
    Rendered =>
        \A i \in 1..Len(call.shown) :
            LET line == log_[i].line
                tail == " | " \o call.shown[i].description
                elapsed == ElapsedText(call.time - call.shown[i].start_time_ms)
            IN /\ log_[i].op = "PrintOnNextLine"
               /\ Len(line) >= Len(tail) + 6
               /\ SubSeq(line, Len(line) - Len(tail) + 1, Len(line)) = tail
               /\ PaddedToSix(SubSeq(line, 1, Len(line) - Len(tail)), elapsed)

\* A command started at the later epoch is shown a thousand minutes later,
\* in seven columns.
C30_Witness ==
    /\ Rendered
    /\ Len(call.shown) = 1
    /\ call.shown[1].start_time_ms = 1000
    /\ call.time = 60001000
    /\ log_[1] = PrintOnNextLine("1000m0s | cmd1")

(***************************************************************************)
(* The claims about the table's ids and cursor (checked under TableSpec).  *)
(***************************************************************************)
\* C39: no two pending commands ever carry the same insertion id, and a
\* command that becomes pending gets a larger id than every command
\* pending before it, whatever calls came in between.
C39_IdsUniqueAndIncreasing ==
    [][/\ \A a, b \in pending_commands_' : a # b => a.command_id # b.command_id
       /\ \A started \in pending_commands_' \ pending_commands_ :
              \A entry \in pending_commands_ : entry.command_id < started.command_id]_vars

\* The row under the status line the cursor is on after the output calls of
\* log, from the row it started on.
RECURSIVE CursorAfter(_, _)
CursorAfter(row, log) ==
    IF log = <<>> THEN row
    ELSE LET o == Head(log) IN
         CursorAfter(IF o.op \in {"PrintOnNextLine", "ClearNextLine"} THEN row + 1
                     ELSE IF o.op = "MoveUp" THEN row - o.count
                     ELSE row,
                     Tail(log))

\* The PrintOnNextLine and ClearNextLine calls of the last call.
LinesWalked ==
    Cardinality({ i \in 1..Len(log_) : log_[i].op \in {"PrintOnNextLine", "ClearNextLine"} })

\* C38: a MoveUp emitted by a call is by the number of PrintOnNextLine and
\* ClearNextLine calls emitted in that call, the cursor ends on the status
\* line, and after every call last_command_count_ is the number of table
\* lines left on the terminal, which are the rows right under the status.
C38_CursorBalanced ==
    /\ \A i \in 1..Len(log_) : log_[i].op = "MoveUp" => log_[i].count = LinesWalked
    /\ CursorAfter(0, log_) = 0
    /\ table_lines = 1..last_command_count_

\* An update printed one line, cleared another and moved up by two.
C38_Witness ==
    /\ call.op = "UpdateTable"
    /\ last_command_count_ = 1
    /\ LinesWalked = 2
    /\ \E i \in 1..Len(log_) : log_[i] = MoveUp(2)

(***************************************************************************)
(* The claim about Release and write errors (checked under Spec).          *)
(***************************************************************************)
\* C34: a Release of an Explicit slot returns normally and leaves the
\* client as it was, has_implicit_slot_ included; when the write of the
\* token byte fails with an error the pool is left as it was and the token
\* is missing for good, and when the write is only interrupted by a signal
\* it is tried again and the byte is in the pool.
C34_ReleaseSwallowsWriteError ==
    [][(last'.op = "Release" /\ IsExplicit(last'.slot)) =>
          /\ clients' = clients
          /\ assert_failed' = assert_failed
          /\ Len(held'[last'.client]) = Len(held[last'.client]) - 1
          /\ last'.fail = "write" =>
                 (pipe' = pipe /\ lost' = lost \o last'.slot.value)
          /\ last'.fail \in {"none", "EINTR"} =>
                 (pipe' = pipe \o last'.slot.value /\ lost' = lost)]_vars

\* The write of a Release failed while the client's implicit slot was out,
\* and a token is missing.
C34_Witness ==
    /\ last.op = "Release"
    /\ IsExplicit(last.slot)
    /\ last.fail = "write"
    /\ ~clients[last.client].has_implicit_slot_
    /\ lost # ""

(***************************************************************************)
(* The claims about teardown (checked under SubprocSpec).                  *)
(***************************************************************************)
\* C40: DoWork dispatches a completion packet only to a subprocess that is
\* in running_: never to one that Add placed in finished_, that
\* NextFinished handed out, or that Clear destroyed.
C40_DispatchToRunningOnly ==
    [][(work'.op = "DoWork" /\ ioport # <<>> /\ ~WokenByInterrupt(Head(ioport))) =>
          InSeq(running_, Head(ioport).key)]_vars

(***************************************************************************)
(* The claim about Clear (checked under ClearSpec).                        *)
(***************************************************************************)
\* The subprocesses in running_.
Running == { running_[i] : i \in 1..Len(running_) }

\* C36: Clear sends the termination event to exactly the subprocesses in
\* running_ that are not console subprocesses and have a child, destroys
\* every subprocess in running_ and no other, and leaves running_ empty and
\* finished_ as it was.
C36_ClearSignalsAndDestroys ==
    [][work'.op = "Clear" =>
          /\ \A key \in DOMAIN subs :
                 key \in work'.signalled <=>
                     (key \in Running /\ ~subs[key].use_console_ /\ subs[key].child_)
          /\ \A key \in Running : subs'[key].deleted
          /\ \A key \in DOMAIN subs \ Running : subs'[key] = subs[key]
          /\ running_' = <<>>
          /\ finished_' = finished_]_vars

\* Clear destroyed a subprocess whose child it sent the event to and a
\* console subprocess whose child it sent none.
C36_Witness ==
    /\ work.op = "Clear"
    /\ work.signalled # {}
    /\ \E key \in DOMAIN subs :
           subs[key].deleted /\ subs[key].use_console_ /\ key \notin work.signalled

(***************************************************************************)
(* The claim about the stream buffers (checked under StreamSpec).          *)
(***************************************************************************)
\* C35: the buffer of each stream of a subprocess only grows at its end, and
\* once the stream is closed no step changes it.
C35_BuffersAppendOnly ==
    [][\A key \in DOMAIN subs : \A w \in Streams :
          LET old == PipeOf(subs[key], w)
              new == PipeOf(subs'[key], w)
          IN /\ Len(new.buf_) >= Len(old.buf_)
             /\ SubSeq(new.buf_, 1, Len(old.buf_)) = old.buf_
             /\ IsClosed(old) => new.buf_ = old.buf_]_vars

\* Finish was called on a subprocess whose stdout, closed, holds the two
\* chunks its child wrote, in order.
C35_Witness ==
    /\ work.op = "Finish"
    /\ work.ret
    /\ IsClosed(subs[work.subproc].stdout_pipe_)
    /\ GetStdout(subs[work.subproc]) = "op"
(***************************************************************************)
(* CanonicalPath: a path string made canonical on construction, and on     *)
(* Windows the mask of the separators that were back-slashes.  The mask    *)
(* is a uint64_t; it is modelled by the set of the positions of its bits   *)
(* that are set, so that a shift loses the bit that leaves the word.       *)
(***************************************************************************)
\* The width of the mask and of the masks the loops shift.
SlashBitsWidth == 64

\* The largest number of tokens an input path is put together from.
MaxPathTokens == 4
\* The largest number of separators of a raw path.
MaxSeparators == 65

IsPathSeparator(c, win32) == c = "/" \/ (win32 /\ c = "\\")

\* The index after the "../" that a relative path starts with.
RECURSIVE SkipUpDirs(_, _, _)
SkipUpDirs(path, src, win32) ==
    IF /\ src + 2 <= Len(path)
       /\ CharAt(path, src) = "." /\ CharAt(path, src + 1) = "."
       /\ IsPathSeparator(CharAt(path, src + 2), win32)
    THEN SkipUpDirs(path, src + 3, win32)
    ELSE src

\* The least member of a set of numbers that is not empty.
Least(S) == CHOOSE i \in S : \A j \in S : i <= j

\* The strings pieces[lo] to pieces[hi] put one after the other, by halves.
RECURSIVE JoinPieces(_, _, _)
JoinPieces(pieces, lo, hi) ==
    IF lo > hi THEN ""
    ELSE IF lo = hi THEN pieces[lo]
    ELSE LET mid == (lo + hi) \div 2 IN
         JoinPieces(pieces, lo, mid) \o JoinPieces(pieces, mid + 1, hi)

\* The components of the path from src on, in order: each with its name
\* and, as piece, the name with the separator after it; the last one is the
\* one that no separator follows (its name may be empty).
Components(path, src, win32) ==
    LET IsSeparatorAt(i) == i >= src /\ IsPathSeparator(CharAt(path, i), win32)
        seps == SelectSeq([i \in 1..Len(path) |-> i], IsSeparatorAt)
        n == Len(seps)
    IN  [k \in 1..(n + 1) |->
            LET from == IF k = 1 THEN src ELSE seps[k - 1] + 1 IN
            IF k <= n
            THEN [name |-> SubSeq(path, from, seps[k] - 1),
                  piece |-> SubSeq(path, from, seps[k])]
            ELSE [name |-> SubSeq(path, from, Len(path)),
                  piece |-> SubSeq(path, from, Len(path))]]

\* What a run of components comes to: ups, the ".." that found no
\* component to take back, and after them kept, the components that no
\* ".." took back.  An empty component and "." are dropped.
KeepComponent(component) ==
    IF component.name = "" \/ component.name = "." THEN [ups |-> <<>>, kept |-> <<>>]
    ELSE IF component.name = ".." THEN [ups |-> <<component.piece>>, kept |-> <<>>]
    ELSE [ups |-> <<>>, kept |-> <<component.piece>>]

\* A run and the run after it: the ".." of the second take back the last
\* components of the first, one each, and are kept when none is left.
KeepRuns(first, second) ==
    LET back == IF Len(first.kept) < Len(second.ups)
                THEN Len(first.kept) ELSE Len(second.ups)
    IN  IF back < Len(second.ups)
        THEN [ups |-> first.ups \o SubSeq(second.ups, back + 1, Len(second.ups)),
              kept |-> second.kept]
        ELSE [ups |-> first.ups,
              kept |-> SubSeq(first.kept, 1, Len(first.kept) - back) \o second.kept]

\* The components lo to hi, by halves.
RECURSIVE KeepComponents(_, _, _)
KeepComponents(components, lo, hi) ==
    IF lo = hi THEN KeepComponent(components[lo])
    ELSE LET mid == (lo + hi) \div 2 IN
         KeepRuns(KeepComponents(components, lo, mid),
                  KeepComponents(components, mid + 1, hi))

\* The mask of a canonical string whose separators are still the ones of
\* the input: bit i for the i-th separator when it is a back-slash, the
\* top bit for the separators after the first SlashBitsWidth.
SlashBitsOf(path) ==
    LET separators(c) == Cardinality({ i \in 1..(c - 1) : IsPathSeparator(CharAt(path, i), TRUE) })
    IN  { IF separators(c) < SlashBitsWidth THEN separators(c) ELSE SlashBitsWidth - 1 :
              c \in { i \in 1..Len(path) : CharAt(path, i) = "\\" } }

\* The string with every back-slash made a forward slash.  The variant
\* does so for the first back-slash only.
ForwardSlashOnce(path) ==
    LET back == { i \in 1..Len(path) : CharAt(path, i) = "\\" } IN
    IF back = {} THEN path
    ELSE SubSeq(path, 1, Least(back) - 1) \o "/" \o DropFirst(path, Least(back))

ForwardSlashes(path) ==
    JoinPieces([i \in 1..Len(path) |->
                    IF CharAt(path, i) = "\\" THEN "/" ELSE CharAt(path, i)],
               1, Len(path))

\* CanonicalizePath(&path, &slash_bits): the canonical string and the mask.
\* The separator that starts an absolute path is kept (two of them on
\* Windows), as are the "../" a relative path starts with; a separator at
\* the end is dropped; a path with nothing left is ".".
CanonicalizePath(path, win32) ==
    IF path = "" THEN [value |-> "", slash_bits |-> {}]
    ELSE
    LET absolute == IsPathSeparator(CharAt(path, 1), win32)
        src == IF absolute
               THEN IF win32 /\ Len(path) >= 2 /\ IsPathSeparator(CharAt(path, 2), win32)
                    THEN 3 ELSE 2
               ELSE SkipUpDirs(path, 1, win32)
        dst_start == IF absolute THEN src - 1 ELSE 0
        components == Components(path, src, win32)
        run == KeepComponents(components, 1, Len(components))
        pieces == run.ups \o run.kept
        dst == SubSeq(path, 1, src - 1) \o JoinPieces(pieces, 1, Len(pieces))
        cut == IF Len(dst) > dst_start /\ IsPathSeparator(CharAt(dst, Len(dst)), win32)
               THEN SubSeq(dst, 1, Len(dst) - 1)
               ELSE dst
        result == IF cut = "" THEN "." ELSE cut
    IN  IF win32
        THEN [value |-> ForwardSlashes(result), slash_bits |-> SlashBitsOf(result)]
        ELSE [value |-> result, slash_bits |-> {}]

\* CanonicalPath::CanonicalPath(path): the Windows build stores the mask,
\* the others ignore it.
CanonicalPath(path, win32) ==
    LET canonical == CanonicalizePath(path, win32) IN
    [value_ |-> canonical.value, slash_bits_ |-> IF win32 THEN canonical.slash_bits ELSE {}]

\* CanonicalPath::MakeRaw(str, slash_bits): the private constructor, which
\* has no mask to store but on Windows.
MakeRaw(str, slash_bits, win32) ==
    [value_ |-> str, slash_bits_ |-> IF win32 THEN slash_bits ELSE {}]

\* CanonicalPath::operator==.
PathEquals(a, b) == a.value_ = b.value_

\* mask <<= 1 on a uint64_t; the variant keeps the top bit when it would
\* leave the word.
ShiftLeftSticky(mask) ==
    { IF b + 1 < SlashBitsWidth THEN b + 1 ELSE SlashBitsWidth - 1 : b \in mask }

ShiftLeft(mask) == { b + 1 : b \in { c \in mask : c + 1 < SlashBitsWidth } }

\* mask <<= 1, times times: by halves.  A mask that is zero stays zero.
RECURSIVE ShiftLeftTimes(_, _)
ShiftLeftTimes(mask, times) ==
    IF mask = {} \/ times = 0 THEN mask
    ELSE IF times = 1 THEN ShiftLeft(mask)
    ELSE ShiftLeftTimes(ShiftLeftTimes(mask, times \div 2), times - times \div 2)

\* CanonicalPath::Decanonicalized().  The loop goes from forward slash to
\* forward slash (strchr) with a mask that starts as 1 and is shifted left
\* after each of them; it makes the slash a back-slash when
\* slash_bits_ & mask is not zero.  Other builds than the one for Windows
\* return the value.
Decanonicalized(path, win32) ==
    LET value == path.value_
        slashes(c) == Cardinality({ i \in 1..(c - 1) : CharAt(value, i) = "/" })
    IN  IF win32
        THEN JoinPieces([c \in 1..Len(value) |->
                            IF /\ CharAt(value, c) = "/"
                               /\ path.slash_bits_ \cap ShiftLeftTimes({0}, slashes(c)) # {}
                            THEN "\\"
                            ELSE CharAt(value, c)],
                        1, Len(value))
        ELSE value

\* path = CanonicalPath(str) for the string chosen.
NewPath ==
    /\ canon' = CanonicalPath(input_path.str, input_path.win32)
    /\ path_call' = [op |-> "CanonicalPath", before |-> canon, constructed |-> TRUE,
                     result |-> ""]
    /\ UNCHANGED <<input_path, OutsidePath>>

\* path = CanonicalPath(path.value()).
NewPathFromValue ==
    /\ canon' = CanonicalPath(canon.value_, input_path.win32)
    /\ path_call' = [op |-> "CanonicalPath(value)", before |-> canon,
                     constructed |-> TRUE, result |-> ""]
    /\ UNCHANGED <<input_path, OutsidePath>>

\* path = CanonicalPath::MakeRaw(str, slash_bits) for the string and the
\* mask chosen.
NewRawPath ==
    /\ canon' = MakeRaw(input_path.str, input_path.slash_bits, input_path.win32)
    /\ path_call' = [op |-> "MakeRaw", before |-> canon, constructed |-> FALSE,
                     result |-> ""]
    /\ UNCHANGED <<input_path, OutsidePath>>

\* path.Decanonicalized().
Decanonicalize ==
    /\ path_call' = [op |-> "Decanonicalized", before |-> canon,
                     constructed |-> path_call.constructed,
                     result |-> Decanonicalized(canon, input_path.win32)]
    /\ UNCHANGED <<input_path, canon, OutsidePath>>

(***************************************************************************)
(* The paths: every string of up to MaxPathTokens of the tokens below,     *)
(* paths of up to MaxSeparators separators of either kind, and raw paths   *)
(* with masks whose low bits, top bits or all bits are set; each on a      *)
(* Windows build and on another.                                           *)
(***************************************************************************)
PathTokens == {"a", ".", "..", "/", "\\"}

RECURSIVE PathsOf(_)
PathsOf(n) ==
    IF n = 0 THEN {""}
    ELSE LET shorter == PathsOf(n - 1) IN
         shorter \cup { path \o token : path \in shorter, token \in PathTokens }

RECURSIVE Repeated(_, _)
Repeated(str, n) ==
    IF n = 0 THEN ""
    ELSE IF n = 1 THEN str
    ELSE Repeated(str, n \div 2) \o Repeated(str, n - n \div 2)

SeparatorCounts == (0..2) \cup ((MaxSeparators - 3)..MaxSeparators)

LongPaths ==
    { Repeated("a" \o sep, n) \o "x" : sep \in {"/", "\\"}, n \in SeparatorCounts }

RawPaths ==
    { Repeated("a/", n) \o "x" : n \in SeparatorCounts } \cup {"/", "//a", "a//"}

SlashMasks ==
    { {}, {0}, {1}, {0, 2}, {SlashBitsWidth - 2}, {SlashBitsWidth - 1},
      {0, SlashBitsWidth - 1}, 0..(SlashBitsWidth - 1) }

PathInit ==
    /\ \/ input_path \in [str : PathsOf(MaxPathTokens) \cup LongPaths,
                          slash_bits : {{}}, win32 : BOOLEAN]
       \/ input_path \in [str : RawPaths, slash_bits : SlashMasks, win32 : BOOLEAN]
    /\ canon = DefaultPath
    /\ path_call = NoPathCall
    /\ JobserverUnused
    /\ ParserUnused
    /\ SubprocessUnused
    /\ TableUnused
    /\ PrinterUnused

PathNext ==
    \/ NewPath
    \/ NewPathFromValue
    \/ NewRawPath
    \/ Decanonicalize

PathSpec == PathInit /\ [][PathNext]_vars

(***************************************************************************)
(* The claims about canonical paths.                                       *)
(***************************************************************************)
\* C31: constructing a CanonicalPath from the value of a constructed
\* CanonicalPath gives a path with the same value, and the two compare
\* equal.
C31_ConstructionIdempotent ==
    [][(path_call.constructed /\ path_call'.op = "CanonicalPath(value)")
          => /\ canon'.value_ = canon.value_
             /\ PathEquals(canon', canon)]_vars

\* A path that construction changed (components taken back, separators
\* made forward slashes) was constructed again from its value.
C31_Witness ==
    /\ path_call.op = "CanonicalPath(value)"
    /\ input_path.str = "..\\a"
    /\ input_path.win32
    /\ path_call.before = [value_ |-> "../a", slash_bits_ |-> {0}]
    /\ canon = [value_ |-> "../a", slash_bits_ |-> {}]
\* The number of forward slashes of str before position c.
SlashesBefore(str, c) == Cardinality({ i \in 1..(c - 1) : CharAt(str, i) = "/" })

\* What Decanonicalized returned is the value with a back-slash for the
\* forward slashes that BackSlashed tells of, counted from 0.
DecanonicalizedBy(BackSlashed(_, _)) ==
    LET value == path_call.before.value_
        result == path_call.result
    IN  /\ Len(result) = Len(value)
        /\ \A c \in 1..Len(value) :
               CharAt(result, c) =
                   IF /\ CharAt(value, c) = "/"
                      /\ BackSlashed(SlashesBefore(value, c), path_call.before.slash_bits_)
                   THEN "\\"
                   ELSE CharAt(value, c)

\* Bit i for the first SlashBitsWidth separators, the top bit for the ones
\* after them.
TopBitSticks(i, slash_bits) ==
    IF i < SlashBitsWidth THEN i \in slash_bits ELSE (SlashBitsWidth - 1) \in slash_bits

\* Bit i for the first SlashBitsWidth separators, none for the ones after
\* them.
TopBitShiftedOut(i, slash_bits) == i < SlashBitsWidth /\ i \in slash_bits

MaxLockedCalls == 3

NewLine == "\n"

Fwrite(data) == [op |-> "fwrite", data |-> data]
Printf(text) == [op |-> "printf", data |-> text]
Elided(to_print) == [op |-> "elided", data |-> to_print]

\* The members of the printer that the calls change, and out, what a call
\* has written so far.
ThePrinter ==
    [have_blank_line_ |-> have_blank_line_, console_locked_ |-> console_locked_,
     line_buffer_ |-> line_buffer_, line_type_ |-> line_type_,
     output_buffer_ |-> output_buffer_, out |-> <<>>]

EndsLine(text) == text = "" \/ CharAt(text, Len(text)) = NewLine

\* LinePrinter::PrintOrBuffer(data, size); the variant writes whether the
\* console is locked or not.
PrintUnbuffered(p, data) == [p EXCEPT !.out = Append(@, Fwrite(data))]

PrintOrBuffer(p, data) ==
    IF p.console_locked_
    THEN [p EXCEPT !.output_buffer_ = @ \o data]
    ELSE [p EXCEPT !.out = Append(@, Fwrite(data))]

\* LinePrinter::Print(to_print, type), smart telling of smart_terminal_.
DoPrint(p, to_print, type, smart) ==
    IF p.console_locked_
    THEN [p EXCEPT !.line_buffer_ = to_print, !.line_type_ = type]
    ELSE LET over == IF smart THEN <<Printf("\r")>> ELSE <<>> IN
         IF ~smart \/ type # "ELIDE"
         THEN [p EXCEPT !.out = @ \o over \o <<Printf(to_print \o NewLine)>>,
                        !.have_blank_line_ = TRUE]
         ELSE [p EXCEPT !.out = @ \o over \o <<Elided(to_print)>>,
                        !.have_blank_line_ = FALSE]

\* LinePrinter::PrintOnNewLine(to_print).
DoPrintOnNewLine(p, to_print) ==
    LET flushed == IF p.console_locked_ /\ p.line_buffer_ # ""
                   THEN [p EXCEPT !.output_buffer_ = @ \o p.line_buffer_ \o NewLine,
                                  !.line_buffer_ = ""]
                   ELSE p
        on_new_line == IF ~flushed.have_blank_line_
                       THEN PrintOrBuffer(flushed, NewLine)
                       ELSE flushed
        printed == IF to_print # "" THEN PrintOrBuffer(on_new_line, to_print)
                   ELSE on_new_line
    IN  [printed EXCEPT !.have_blank_line_ = EndsLine(to_print)]

\* The end of SetConsoleLocked(false), the console being unlocked already:
\* the buffered output, then the buffered line; both buffers are cleared.
\* The variant prints the buffered line first.
UnlockLineFirst(p, smart) ==
    LET line == IF p.line_buffer_ # ""
                THEN DoPrint(p, p.line_buffer_, p.line_type_, smart)
                ELSE p
        output == DoPrintOnNewLine(line, line.output_buffer_)
    IN  [output EXCEPT !.output_buffer_ = "", !.line_buffer_ = ""]

Unlock(p, smart) ==
    LET output == DoPrintOnNewLine(p, p.output_buffer_)
        line == IF output.line_buffer_ # ""
                THEN DoPrint(output, output.line_buffer_, output.line_type_, smart)
                ELSE output
    IN  [line EXCEPT !.output_buffer_ = "", !.line_buffer_ = ""]

\* LinePrinter::SetConsoleLocked(locked).
DoSetConsoleLocked(p, locked, smart) ==
    IF locked = p.console_locked_ THEN p
    ELSE LET on_new_line == IF locked THEN DoPrintOnNewLine(p, "") ELSE p
             set == [on_new_line EXCEPT !.console_locked_ = locked]
         IN  IF ~locked THEN Unlock(set, smart) ELSE set

\* The printer after a call that left it as p, and the record of the call.
PrinterBecomes(p, op, locked, calls) ==
    /\ have_blank_line_' = p.have_blank_line_
    /\ console_locked_' = p.console_locked_
    /\ line_buffer_' = p.line_buffer_
    /\ line_type_' = p.line_type_
    /\ output_buffer_' = p.output_buffer_
    /\ term_out' = p.out
    /\ buffered' = calls
    /\ printer_call' = [op |-> op, locked |-> locked, was_locked |-> console_locked_]
    /\ UNCHANGED <<smart_terminal_, OutsidePrinter>>

\* printer.Print(to_print, type).
LinePrinterPrint(to_print, type) ==
    /\ console_locked_ => Len(buffered) < MaxLockedCalls
    /\ PrinterBecomes(DoPrint(ThePrinter, to_print, type, smart_terminal_), "Print", FALSE,
                      IF console_locked_
                      THEN Append(buffered, [op |-> "Print", text |-> to_print, type |-> type])
                      ELSE <<>>)

\* printer.PrintOnNewLine(to_print).
PrintOnNewLine(to_print) ==
    /\ console_locked_ => Len(buffered) < MaxLockedCalls
    /\ PrinterBecomes(DoPrintOnNewLine(ThePrinter, to_print), "PrintOnNewLine", FALSE,
                      IF console_locked_
                      THEN Append(buffered, [op |-> "PrintOnNewLine", text |-> to_print,
                                             type |-> "FULL"])
                      ELSE <<>>)

\* printer.SetConsoleLocked(locked).
SetConsoleLocked(locked) ==
    /\ locked \in BOOLEAN
    /\ PrinterBecomes(DoSetConsoleLocked(ThePrinter, locked, smart_terminal_),
                      "SetConsoleLocked", locked,
                      IF locked /\ console_locked_ THEN buffered ELSE <<>>)

\* printer.set_smart_terminal(smart).
set_smart_terminal(smart) ==
    /\ smart_terminal_' = smart
    /\ term_out' = <<>>
    /\ printer_call' = [op |-> "set_smart_terminal", locked |-> FALSE,
                        was_locked |-> console_locked_]
    /\ UNCHANGED <<have_blank_line_, console_locked_, line_buffer_, line_type_,
                   output_buffer_, buffered, OutsidePrinter>>

(***************************************************************************)
(* The printer on a smart and on a dumb terminal; status lines of either   *)
(* type, an empty one among them; text that ends its line, text that does  *)
(* not, and no text.                                                       *)
(***************************************************************************)
StatusLines == {"", "s", "t"}
LineTypes == {"FULL", "ELIDE"}
OutputTexts == {"", "a", "b\n"}

PrinterInit ==
    /\ \E smart \in BOOLEAN : NewPrinter(smart)
    /\ JobserverUnused
    /\ ParserUnused
    /\ SubprocessUnused
    /\ TableUnused
    /\ PathUnused

PrinterNext ==
    \/ \E to_print \in StatusLines, type \in LineTypes : LinePrinterPrint(to_print, type)
    \/ \E to_print \in OutputTexts : PrintOnNewLine(to_print)
    \/ \E locked \in BOOLEAN : SetConsoleLocked(locked)
    \/ \E smart \in BOOLEAN : set_smart_terminal(smart)

PrinterSpec == PrinterInit /\ [][PrinterNext]_vars

(***************************************************************************)
(* The claims about the line printer.                                      *)
(***************************************************************************)
\* C33: while the console is locked, no call of Print or PrintOnNewLine
\* writes anything to the terminal.
C33_LockedPrintsNothing ==
    (printer_call.op \in {"Print", "PrintOnNewLine"} /\ printer_call.was_locked)
        => term_out = <<>>

\* Print and PrintOnNewLine were both called with text while the console
\* was locked, the text being kept in the buffers.
C33_Witness ==
    /\ printer_call.op = "PrintOnNewLine"
    /\ printer_call.was_locked
    /\ Len(buffered) = 3
    /\ buffered[1].op = "PrintOnNewLine" /\ buffered[1].text = "a"
    /\ buffered[2].op = "Print" /\ buffered[2].text = "s"
    /\ buffered[3].text = "b\n"
    /\ output_buffer_ # ""
    /\ term_out = <<>>
\* What the calls made while the console was locked ask to be printed, in
\* call order: text for every PrintOnNewLine, before it as status the line
\* of the last Print made since the PrintOnNewLine before, when it is not
\* empty; pending and type are the line of the last Print that no
\* PrintOnNewLine followed.
RECURSIVE BufferedItems(_, _)
BufferedItems(calls, so_far) ==
    IF calls = <<>> THEN so_far
    ELSE LET c == Head(calls) IN
         BufferedItems(Tail(calls),
             IF c.op = "Print"
             THEN [so_far EXCEPT !.pending = c.text, !.type = c.type]
             ELSE [items |-> so_far.items
                               \o (IF so_far.pending # ""
                                   THEN <<[kind |-> "status", text |-> so_far.pending \o NewLine]>>
                                   ELSE <<>>)
                               \o <<[kind |-> "text", text |-> c.text]>>,
                   pending |-> "", type |-> so_far.type])

\* text is the items one after the other, each once, with nothing between
\* them but newlines; own_line asks that a status item starts a line too.
\* at_start tells whether text starts at the start of a line.
RECURSIVE ItemsInOrder(_, _, _, _)
ItemsInOrder(text, items, at_start, own_line) ==
    \/ /\ items = <<>>
       /\ text = ""
    \/ /\ items # <<>>
       /\ Len(text) >= Len(Head(items).text)
       /\ SubSeq(text, 1, Len(Head(items).text)) = Head(items).text
       /\ (own_line /\ Head(items).kind = "status") => at_start
       /\ ItemsInOrder(DropFirst(text, Len(Head(items).text)), Tail(items),
                       IF Head(items).text = "" THEN at_start ELSE EndsLine(Head(items).text),
                       own_line)
    \/ /\ text # ""
       /\ CharAt(text, 1) = NewLine
       /\ ItemsInOrder(DropFirst(text, 1), items, TRUE, own_line)

\* The bytes of a run of fwrite calls.
RECURSIVE Written(_)
Written(writes) ==
    IF writes = <<>> THEN "" ELSE Head(writes).data \o Written(Tail(writes))

\* What Print(line, type) writes on an unlocked console.
LineOnTerminal(line, type, smart) ==
    (IF smart THEN <<Printf("\r")>> ELSE <<>>)
        \o <<IF smart /\ type = "ELIDE" THEN Elided(line) ELSE Printf(line \o NewLine)>>

\* The step unlocks the console and writes what was buffered: the items in
\* order by fwrite, then the pending line as Print writes it; the buffers
\* are empty afterwards.
FlushedInOrder(own_line) ==
    LET asked == BufferedItems(buffered, [items |-> <<>>, pending |-> "", type |-> "FULL"])
    IN  /\ \E k \in 0..Len(term_out') :
               /\ \A i \in 1..k : term_out'[i].op = "fwrite"
               /\ ItemsInOrder(Written(SubSeq(term_out', 1, k)), asked.items, TRUE, own_line)
               /\ SubSeq(term_out', k + 1, Len(term_out')) =
                      IF asked.pending = "" THEN <<>>
                      ELSE LineOnTerminal(asked.pending, asked.type, smart_terminal_)
        /\ output_buffer_' = ""
        /\ line_buffer_' = ""

\* The step leaves the printer as it is and writes nothing.
PrinterUntouched ==
    /\ UNCHANGED <<smart_terminal_, have_blank_line_, console_locked_, line_buffer_,
                   line_type_, output_buffer_>>
    /\ term_out' = <<>>

\* C37 as stated: unlocking the console writes everything buffered while
\* it was locked exactly once and in call order, each PrintOnNewLine text,
\* before it as a line of its own the status line that the PrintOnNewLine
\* followed, and last the pending Print line with its line type; both
\* buffers are empty afterwards; SetConsoleLocked with the current lock
\* state does nothing.
C37_StatusOnOwnLine ==
    [][printer_call'.op = "SetConsoleLocked"
          => IF printer_call'.locked = console_locked_ THEN PrinterUntouched
             ELSE ~printer_call'.locked => FlushedInOrder(TRUE)]_vars

\* C37 as the code has it: the same, but the status line that a
\* PrintOnNewLine followed is written, with a newline after it, right after
\* what was buffered before it, which is the start of a line only when that
\* ended its line.
C37_FlushedOnceInOrder ==
    [][printer_call'.op = "SetConsoleLocked"
          => IF printer_call'.locked = console_locked_ THEN PrinterUntouched
             ELSE ~printer_call'.locked => FlushedInOrder(FALSE)]_vars

\* The console was unlocked after a status line, a text that followed it
\* and a status line that nothing followed were buffered: the first status
\* line and the text were written by fwrite, the pending line by Print, and
\* the buffers are empty.
C37_Witness ==
    /\ printer_call = [op |-> "SetConsoleLocked", locked |-> FALSE, was_locked |-> TRUE]
    /\ smart_terminal_
    /\ term_out = <<Fwrite("s\nb\n"), Printf("\r"), Elided("t")>>
    /\ output_buffer_ = ""
    /\ line_buffer_ = ""
====
